---- MODULE Spec2Model ----
(***************************************************************************)
(* Model of the scheduler/dispatcher core of naoqi_driver                  *)
(* (src/src/naoqi_driver.cpp): the converter priority queue and its tick   *)
(* (Driver::rosIteration), the three name-keyed registries, the publish /  *)
(* record / log flags, the minidump protocol and the two mutexes.          *)
(***************************************************************************)
EXTENDS Integers, Sequences, FiniteSets, TLC

(***************************************************************************)
(* Time.  rclcpp::Time and rclcpp::Duration hold 64-bit nanosecond counts. *)
(* A count is written <<seconds, nanoseconds>> with nanoseconds below      *)
(* NanosPerSecond, so that every number stays small.                       *)
(***************************************************************************)
NanosPerSecond == 1000000000

FloatMantissaBits == 24

\* helpers::recorder::bufferDefaultDuration, in seconds (line 131).
BufferDefaultDuration == 10

RECURSIVE Pow2(_)
Pow2(n) == IF n = 0 THEN 1 ELSE 2 * Pow2(n - 1)

Norm(s, n) == <<s + (n \div NanosPerSecond), n % NanosPerSecond>>

TimeAdd(a, b) == Norm(a[1] + b[1], a[2] + b[2])

TimeSub(a, b) == Norm(a[1] - b[1], a[2] - b[2])

TimeLess(a, b) == a[1] < b[1] \/ (a[1] = b[1] /\ a[2] < b[2])

TimeLeq(a, b) == a = b \/ TimeLess(a, b)

TimeMax(a, b) == IF TimeLess(a, b) THEN b ELSE a

Zero == <<0, 0>>

Seconds(n) == <<n, 0>>

Millis(n) == Norm(0, n * 1000000)

(***************************************************************************)
(* The period of line 299: (1.0f / conv.frequency()) * 1e9 handed to the   *)
(* uint32_t nanoseconds parameter of rclcpp::Duration(0, ns).              *)
(* A frequency is a float written <<num, den>> = num / den with den a      *)
(* power of two, so that it is a float exactly.                            *)
(***************************************************************************)
\* Smallest s with den * 2^s / num >= 2^23: the binary exponent of the quotient.
RECURSIVE QuotientScale(_, _)
QuotientScale(f, s) ==
  IF (f[2] * Pow2(s)) \div f[1] >= Pow2(FloatMantissaBits - 1)
  THEN s
  ELSE QuotientScale(f, s + 1)

\* 1.0f / f in single precision, round to nearest even: <<m, s>> is m / 2^s.
FloatReciprocal(f) ==
  LET s == QuotientScale(f, 0)
      n == f[2] * Pow2(s)
      q == n \div f[1]
      r == n % f[1]
      up == 2 * r > f[1] \/ (2 * r = f[1] /\ q % 2 = 1)
  IN  <<IF up THEN q + 1 ELSE q, s>>

\* floor((i + r/d) * 5^k)
RECURSIVE TimesPow5(_, _, _, _)
TimesPow5(i, r, d, k) ==
  IF k = 0 THEN i
  ELSE TimesPow5(5 * i + ((5 * r) \div d), (5 * r) % d, d, k - 1)

\* (double)(m / 2^s) * 1e9, truncated toward zero; the product is exact in
\* double precision (m * 5^9 has fewer than 53 bits) and 1e9 = 5^9 * 2^9.
TimesNanos(x) ==
  LET m == x[1]
      s == x[2]
      frac == m % Pow2(s)
      d == Pow2(s - 9)
  IN  <<m \div Pow2(s), TimesPow5(frac \div d, frac % d, d, 9)>>

\* 2^32 nanoseconds, one more than the largest uint32_t.
Uint32Range == <<4, 294967296>>

RECURSIVE WrapUint32(_)
WrapUint32(t) == IF TimeLess(t, Uint32Range) THEN t ELSE WrapUint32(TimeSub(t, Uint32Range))

\* The conversion double -> uint32_t.  Out of range it is undefined behaviour:
\* the builds either keep the low 32 bits or saturate.
ToUint32(t) ==
  IF TimeLess(t, Uint32Range)
  THEN {t}
  ELSE {WrapUint32(t), TimeSub(Uint32Range, <<0, 1>>)}

Period(f) == ToUint32(TimesNanos(FloatReciprocal(f)))


(***************************************************************************)
(* Bounds of the model.                                                    *)
(***************************************************************************)
\* Tasks (converters) registered in one run, where callers and dumps run too.
MaxConverters == 1

\* Tasks registered in one run, where only the scheduling is followed.
MaxTasks == 3

\* Event converters registered in one run.
MaxEvents == 1

\* Ticks are explored while the due fire time is below this many seconds.
MaxTime == 1

\* Samples a recorder's buffer keeps (the buffer is a bounded time window).
MaxBuffer == 1

\* Registrations of tasks made in all, in the runs that follow stop().
MaxRegistrations == 2

Names == {"a", "b"}

Callers == {"c1", "c2"}

\* The caller of the runs that follow one caller beside the tick.
OneCaller == {"c1"}

\* Frequencies a task is registered with: one-shot, 1 Hz, 10 Hz and 1/8 Hz.
Frequencies == {<<0, 1>>, <<1, 1>>, <<10, 1>>, <<1, 8>>}

\* What the clock may advance by between two steps.
ElapseSteps == {Millis(500)}

PUBLISH == "PUBLISH"
RECORD == "RECORD"
LOG == "LOG"

NoOne == "free"
Scheduler == "scheduler"

VARIABLES
  now,                \* the node's clock, this->now()
  converters_,        \* the Task Registry: sequence of [name, frequency, pub, rec]
  conv_queue_,        \* the priority queue: ScheduledConverters, kept sorted
  recorders,          \* the recorder objects: sequence of [isSubscribed, buffer]
  pub_map_,           \* name -> the publisher object, named by its task's index
  rec_map_,           \* name -> index of a recorder object
  event_map_,         \* name -> event object
  publish_enabled_,
  record_enabled_,
  log_enabled_,
  keep_looping,
  buffer_duration_,   \* the horizon setBufferDuration set last
  mutex_conv_queue_,  \* holder of the queue lock, or NoOne
  mutex_record_,      \* holder of the record lock, or NoOne
  recorder_,          \* the GlobalRecorder: the container being written
  tick,               \* the scheduler thread inside rosIteration
  call,               \* each caller thread inside an operation of the Driver
  dispatched,         \* history: per task, its dispatches and first/last fire time
  lastFire            \* history: fire time of the entry popped last

vars == <<now, converters_, conv_queue_, recorders, pub_map_, rec_map_,
          event_map_, publish_enabled_, record_enabled_, log_enabled_, keep_looping,
          buffer_duration_, mutex_conv_queue_, mutex_record_, recorder_, tick, call,
          dispatched, lastFire>>

registries == <<converters_, conv_queue_, recorders, pub_map_, rec_map_,
                event_map_, dispatched>>

\* The switches and the setting that no lock guards.
flags == <<publish_enabled_, record_enabled_, log_enabled_, keep_looping,
          buffer_duration_>>

IdleTick ==
  [pc |-> "idle", top |-> 0, conv |-> <<>>, isSubscribed |-> FALSE, actions |-> <<>>,
   todo |-> <<>>, writes |-> 0]

IdleCall ==
  [pc |-> "idle", op |-> "none", conv |-> <<>>, key |-> "", looping |-> FALSE,
   afterStop |-> FALSE, names |-> {}, tooBig |-> FALSE, is_started |-> FALSE,
   wasRecording |-> FALSE, ret |-> "none"]

ClosedRecorder == [isStarted |-> FALSE, by |-> "none", written |-> {}, dumped |-> {}]

\* Driver::Driver(): the flags of lines 126-129, empty registries.
Init ==
  /\ now = Zero
  /\ converters_ = <<>>
  /\ conv_queue_ = <<>>
  /\ recorders = <<>>
  /\ pub_map_ = <<>>
  /\ rec_map_ = <<>>
  /\ event_map_ = <<>>
  /\ publish_enabled_ = FALSE
  /\ record_enabled_ = FALSE
  /\ log_enabled_ = FALSE
  /\ keep_looping = TRUE
  /\ buffer_duration_ = BufferDefaultDuration
  /\ mutex_conv_queue_ = NoOne
  /\ mutex_record_ = NoOne
  /\ recorder_ = ClosedRecorder
  /\ tick = IdleTick
  /\ call = [c \in Callers |-> IdleCall]
  /\ dispatched = <<>>
  /\ lastFire = Zero

(***************************************************************************)
(* Helpers on the registries.                                              *)
(***************************************************************************)
\* std::map::find(name) != end()
Has(map, name) == name \in DOMAIN map

\* std::map::insert: an existing key keeps its value.
MapInsert(map, name, value) ==
  IF Has(map, name) THEN map
  ELSE [n \in DOMAIN map \cup {name} |-> IF n = name THEN value ELSE map[n]]

ScheduledConverter(schedule, conv_index) ==
  [schedule_ |-> schedule, conv_index_ |-> conv_index]

\* ScheduledConverter::operator<: the queue orders by schedule_, earliest on top.
Before(x, y) ==
  \/ TimeLess(x.schedule_, y.schedule_)
  \/ (x.schedule_ = y.schedule_ /\ x.conv_index_ <= y.conv_index_)

\* A push that leaves the entry in the queue twice.
QueuePushTwice(q, e) == <<e, e>> \o q

\* conv_queue_.push(e): the queue is written as the sequence sorted by Before.
RECURSIVE QueuePush(_, _)
QueuePush(q, e) ==
  IF q = <<>> THEN <<e>>
  ELSE IF Before(e, Head(q)) THEN <<e>> \o q
  ELSE <<Head(q)>> \o QueuePush(Tail(q), e)

\* Positions conv_queue_.top() may name: an entry of minimal schedule_.
Tops(q) ==
  {i \in 1..Len(q) : \A j \in 1..Len(q) : TimeLeq(q[i].schedule_, q[j].schedule_)}

\* A pop that leaves the entry in the queue.
QueuePopNothing(q, i) == q

\* conv_queue_.pop() of the entry at position i.
QueuePop(q, i) == SubSeq(q, 1, i - 1) \o SubSeq(q, i + 1, Len(q))

\* converters_[conv_index]: indices are 0-based in the code.
Conv(conv_index) == converters_[conv_index + 1]


(***************************************************************************)
(* Registration (lines 478-529).                                           *)
(***************************************************************************)
Idle(c) == call[c].pc = "idle"

\* The three overloads that register a task: with a publisher and a recorder
\* (line 512), with a publisher only (line 519), with a recorder only (line 525).
Overloads == {"both", "publisher", "recorder"}

\* A first fire time that is the epoch instead of the clock.
SeedScheduleEpoch == Zero

\* The first fire time of a task: this->now() of line 484.
SeedSchedule == now

\* A recorder as its constructor leaves it: not subscribed, its buffer empty,
\* its horizon the default one.
NewRecorder ==
  [isSubscribed |-> FALSE, buffer |-> 0, buffer_duration |-> BufferDefaultDuration]

\* A registration that takes no lock.
RegistrationUnlocked == TRUE

\* Line 480: boost::mutex::scoped_lock lock( mutex_conv_queue_ ), held to the
\* end of registerConverter(conv).
RegistrationLock == mutex_conv_queue_ = NoOne

\* registerConverter(conv): under the queue lock, append the task and push its
\* first ScheduledConverter.  The publisher and recorder objects bound to the
\* task's callbacks come into being with it.
RegisterConverter(c, name, frequency, overload) ==
  /\ Idle(c)
  /\ RegistrationLock
  /\ LET conv_index == Len(converters_)
         withPub == overload \in {"both", "publisher"}
         withRec == overload \in {"both", "recorder"}
         id == Len(dispatched) + 1
         conv == [name |-> name, frequency |-> frequency, id |-> id,
                  pub |-> IF withPub THEN id ELSE 0,
                  rec |-> IF withRec THEN Len(recorders) + 1 ELSE 0]
     IN  /\ converters_' = Append(converters_, conv)
         /\ conv_queue_' = QueuePush(conv_queue_, ScheduledConverter(SeedSchedule, conv_index))
         /\ recorders' = IF withRec
                         THEN Append(recorders, NewRecorder)
                         ELSE recorders
         /\ dispatched' = Append(dispatched, [n |-> 0, seed |-> SeedSchedule])
         /\ call' = [call EXCEPT ![c] = [IdleCall EXCEPT
                       !.pc = IF withPub THEN "registerPublisher" ELSE "registerRecorder",
                       !.op = "registerConverter", !.conv = conv]]
  /\ UNCHANGED <<now, pub_map_, rec_map_, event_map_, flags, mutex_conv_queue_,
                 mutex_record_, recorder_, tick, lastFire>>

\* registerPublisher(conv_name, pub): pub_map_.insert.
RegisterPublisher(c) ==
  /\ call[c].pc = "registerPublisher"
  /\ LET conv == call[c].conv
     IN  /\ pub_map_' = MapInsert(pub_map_, conv.name, conv.pub)
         /\ call' = [call EXCEPT ![c] = IF conv.rec # 0
                                         THEN [@ EXCEPT !.pc = "registerRecorder"]
                                         ELSE IdleCall]
  /\ UNCHANGED <<now, converters_, conv_queue_, recorders, rec_map_,
                 event_map_, flags, mutex_conv_queue_, mutex_record_, recorder_, tick,
                 dispatched, lastFire>>

\* registerRecorder(conv_name, rec, frequency): rec_map_.insert.
RegisterRecorder(c) ==
  /\ call[c].pc = "registerRecorder"
  /\ rec_map_' = MapInsert(rec_map_, call[c].conv.name, call[c].conv.rec)
  /\ call' = [call EXCEPT ![c] = IdleCall]
  /\ UNCHANGED <<now, converters_, conv_queue_, recorders, pub_map_,
                 event_map_, flags, mutex_conv_queue_, mutex_record_, recorder_, tick,
                 dispatched, lastFire>>

NewEvent ==
  [isPublishing |-> FALSE, isRecording |-> FALSE, isDumping |-> FALSE, started |-> FALSE,
   buffer_duration |-> BufferDefaultDuration]

\* insertEventConverter(key, event): event_map_.insert.
InsertEventConverter(key) == MapInsert(event_map_, key, NewEvent)

\* registerEventConverter(key, type), from line 1286: insert, start the
\* background processing while looping, publish when publishing is enabled.
RegisterEventConverter(c, key) ==
  /\ Idle(c)
  /\ event_map_' = InsertEventConverter(key)
  /\ call' = [call EXCEPT ![c] = [IdleCall EXCEPT !.pc = "keep_looping",
                       !.op = "registerEventConverter", !.key = key,
                       !.afterStop = ~keep_looping]]
  /\ UNCHANGED <<now, converters_, conv_queue_, recorders, pub_map_, rec_map_,
                 flags, mutex_conv_queue_, mutex_record_, recorder_, tick, dispatched,
                 lastFire>>

\* Line 1330: the condition of the if reads the flag keep_looping, which
\* no lock guards and stop() writes.
EventKeepLooping(c) ==
  /\ call[c].pc = "keep_looping"
  /\ call' = [call EXCEPT ![c].pc = "startProcess", ![c].looping = keep_looping]
  /\ UNCHANGED <<now, registries, flags, mutex_conv_queue_, mutex_record_,
                 recorder_, tick, lastFire>>

\* The start of the background processing whatever the flag was.
EventStartAlways(c) ==
  /\ call[c].pc = "startProcess"
  /\ Has(event_map_, call[c].key)
  /\ event_map_' = [event_map_ EXCEPT ![call[c].key].started = TRUE]
  /\ call' = [call EXCEPT ![c].pc = "isPublishing"]
  /\ UNCHANGED <<now, converters_, conv_queue_, recorders, pub_map_, rec_map_,
                 flags, mutex_conv_queue_, mutex_record_, recorder_, tick, dispatched,
                 lastFire>>

\* Lines 1330-1333: event_map_.find(key)->second.startProcess() when the
\* flag was read true.
EventStartProcess(c) ==
  /\ call[c].pc = "startProcess"
  /\ Has(event_map_, call[c].key)
  /\ event_map_' = [event_map_ EXCEPT ![call[c].key].started = @ \/ call[c].looping]
  /\ call' = [call EXCEPT ![c].pc = "isPublishing"]
  /\ UNCHANGED <<now, converters_, conv_queue_, recorders, pub_map_, rec_map_,
                 flags, mutex_conv_queue_, mutex_record_, recorder_, tick, dispatched,
                 lastFire>>

\* The event set publishing whatever publish_enabled_ is.
EventIsPublishingAlways(c) ==
  /\ call[c].pc = "isPublishing"
  /\ Has(event_map_, call[c].key)
  /\ event_map_' = [event_map_ EXCEPT ![call[c].key].isPublishing = TRUE]
  /\ call' = [call EXCEPT ![c] = IdleCall]
  /\ UNCHANGED <<now, converters_, conv_queue_, recorders, pub_map_, rec_map_,
                 flags, mutex_conv_queue_, mutex_record_, recorder_, tick, dispatched,
                 lastFire>>

\* Lines 1334-1337: if (publish_enabled_) isPublishing(true); return true.
EventIsPublishing(c) ==
  /\ call[c].pc = "isPublishing"
  /\ Has(event_map_, call[c].key)
  /\ event_map_' = [event_map_ EXCEPT ![call[c].key].isPublishing = @ \/ publish_enabled_]
  /\ call' = [call EXCEPT ![c] = IdleCall]
  /\ UNCHANGED <<now, converters_, conv_queue_, recorders, pub_map_, rec_map_,
                 flags, mutex_conv_queue_, mutex_record_, recorder_, tick, dispatched,
                 lastFire>>

\* Lines 1332 and 1336: event_map_.find(key) of a key that stop() erased in
\* between is end(), and the call through it has no defined effect: the
\* registries are left as they are and the call ends there.
EventErased(c) ==
  /\ call[c].pc \in {"startProcess", "isPublishing"}
  /\ ~Has(event_map_, call[c].key)
  /\ call' = [call EXCEPT ![c] = IdleCall]
  /\ UNCHANGED <<now, registries, flags, mutex_conv_queue_, mutex_record_,
                 recorder_, tick, lastFire>>

\* startProcess() throws: nothing encloses the call of line 1331, and the
\* exception leaves registerEventConverter, the event inserted and not started.
EventStartFails(c) ==
  /\ call[c].pc = "startProcess"
  /\ call[c].op = "registerEventConverter"
  /\ call[c].looping
  /\ Has(event_map_, call[c].key)
  /\ call' = [call EXCEPT ![c] = [IdleCall EXCEPT !.ret = "exception"]]
  /\ UNCHANGED <<now, registries, flags, mutex_conv_queue_, mutex_record_,
                 recorder_, tick, lastFire>>

(***************************************************************************)
(* The default events of registerDefaultConverter (lines 876-953), every   *)
(* one enabled in the boot configuration: audio, bumper, hand_touch,       *)
(* head_touch, each inserted, started while looping, set publishing.       *)
(***************************************************************************)
DefaultEvents == <<"audio", "bumper", "hand_touch", "head_touch">>

DefaultIndex(key) == CHOOSE i \in 1..Len(DefaultEvents) : DefaultEvents[i] = key

\* Lines 878-879, 906-908, 926-928, 943-945: insertEventConverter of the
\* first event when the registration begins, of the next one after that.
DefaultInsert(c) ==
  /\ \/ Idle(c)
     \/ call[c].pc = "default.insert"
  /\ LET key == IF Idle(c) THEN DefaultEvents[1] ELSE call[c].key
     IN  /\ event_map_' = InsertEventConverter(key)
         /\ call' = [call EXCEPT ![c] = [IdleCall EXCEPT !.pc = "default.keep_looping",
                       !.op = "registerDefaultConverter", !.key = key]]
  /\ UNCHANGED <<now, converters_, conv_queue_, recorders, pub_map_, rec_map_,
                 flags, mutex_conv_queue_, mutex_record_, recorder_, tick, dispatched,
                 lastFire>>

\* Lines 880, 910, 930, 947: if (keep_looping).
DefaultKeepLooping(c) ==
  /\ call[c].pc = "default.keep_looping"
  /\ call' = [call EXCEPT ![c].pc = "default.startProcess", ![c].looping = keep_looping]
  /\ UNCHANGED <<now, registries, flags, mutex_conv_queue_, mutex_record_,
                 recorder_, tick, lastFire>>

\* Lines 883, 911, 931, 948: startProcess() of the event when the flag was
\* read true.
DefaultStartProcess(c) ==
  /\ call[c].pc = "default.startProcess"
  /\ event_map_' = [event_map_ EXCEPT ![call[c].key].started = @ \/ call[c].looping]
  /\ call' = [call EXCEPT ![c].pc = "default.isPublishing"]
  /\ UNCHANGED <<now, converters_, conv_queue_, recorders, pub_map_, rec_map_,
                 flags, mutex_conv_queue_, mutex_record_, recorder_, tick, dispatched,
                 lastFire>>

\* Lines 881-890: only the start of audio is inside a try block.
DefaultCatches(key) == key = "audio"

\* startProcess() throws: the handler of audio reports it and goes on; the
\* exception of another event leaves registerDefaultConverter at once.
DefaultStartFails(c) ==
  /\ call[c].pc = "default.startProcess"
  /\ call[c].looping
  /\ call' = [call EXCEPT ![c] = IF DefaultCatches(call[c].key)
                                  THEN [@ EXCEPT !.pc = "default.isPublishing"]
                                  ELSE [IdleCall EXCEPT !.ret = "exception"]]
  /\ UNCHANGED <<now, registries, flags, mutex_conv_queue_, mutex_record_,
                 recorder_, tick, lastFire>>

\* Lines 892-894, 913-915, 933-935, 950-952: isPublishing(true) when
\* publishing is enabled; then the next event, or the end of the events.
DefaultIsPublishing(c) ==
  /\ call[c].pc = "default.isPublishing"
  /\ event_map_' = [event_map_ EXCEPT ![call[c].key].isPublishing = @ \/ publish_enabled_]
  /\ call' = [call EXCEPT ![c] =
                IF DefaultIndex(call[c].key) < Len(DefaultEvents)
                THEN [IdleCall EXCEPT !.pc = "default.insert",
                        !.op = "registerDefaultConverter",
                        !.key = DefaultEvents[DefaultIndex(call[c].key) + 1]]
                ELSE [IdleCall EXCEPT !.ret = "registered"]]
  /\ UNCHANGED <<now, converters_, conv_queue_, recorders, pub_map_, rec_map_,
                 flags, mutex_conv_queue_, mutex_record_, recorder_, tick, dispatched,
                 lastFire>>

RegisterDefaultConverter(c) ==
  \/ DefaultInsert(c)
  \/ DefaultKeepLooping(c)
  \/ DefaultStartProcess(c)
  \/ DefaultStartFails(c)
  \/ DefaultIsPublishing(c)

(***************************************************************************)
(* The flags (lines 1029-1045 and 1161-1169).                              *)
(***************************************************************************)
SetEvents(field, value) ==
  [n \in DOMAIN event_map_ |-> [event_map_[n] EXCEPT ![field] = value]]

StartPublishing(c) ==
  /\ Idle(c)
  /\ publish_enabled_' = TRUE
  /\ event_map_' = SetEvents("isPublishing", TRUE)
  /\ call' = [call EXCEPT ![c] = IdleCall]
  /\ UNCHANGED <<now, converters_, conv_queue_, recorders, pub_map_, rec_map_,
                 record_enabled_, log_enabled_, keep_looping, mutex_conv_queue_,
                 mutex_record_, recorder_, tick, dispatched, lastFire,
                 buffer_duration_>>

StopPublishing(c) ==
  /\ Idle(c)
  /\ publish_enabled_' = FALSE
  /\ event_map_' = SetEvents("isPublishing", FALSE)
  /\ call' = [call EXCEPT ![c] = IdleCall]
  /\ UNCHANGED <<now, converters_, conv_queue_, recorders, pub_map_, rec_map_,
                 record_enabled_, log_enabled_, keep_looping, mutex_conv_queue_,
                 mutex_record_, recorder_, tick, dispatched, lastFire,
                 buffer_duration_>>

StartLogging(c) ==
  /\ Idle(c)
  /\ log_enabled_' = TRUE
  /\ call' = [call EXCEPT ![c] = IdleCall]
  /\ UNCHANGED <<now, registries, publish_enabled_, record_enabled_, keep_looping,
                 mutex_conv_queue_, mutex_record_, recorder_, tick, lastFire,
                 buffer_duration_>>

StopLogging(c) ==
  /\ Idle(c)
  /\ log_enabled_' = FALSE
  /\ call' = [call EXCEPT ![c] = IdleCall]
  /\ UNCHANGED <<now, registries, publish_enabled_, record_enabled_, keep_looping,
                 mutex_conv_queue_, mutex_record_, recorder_, tick, lastFire,
                 buffer_duration_>>

(***************************************************************************)
(* The environment: the clock runs.                                        *)
(***************************************************************************)
Elapse(d) ==
  /\ TimeLess(now, Seconds(MaxTime))
  /\ now' = TimeAdd(now, d)
  /\ UNCHANGED <<registries, flags, mutex_conv_queue_, mutex_record_, recorder_, tick,
                 call, lastFire>>

(***************************************************************************)
(* The scheduler tick, Driver::rosIteration (lines 242-314).  The thread   *)
(* holds mutex_conv_queue_ from the peek to the reschedule; the steps      *)
(* between are the places where another thread can run.                    *)
(***************************************************************************)
\* The entry conv_queue_.top() named at the start of the tick, and its task.
TopEntry == conv_queue_[tick.top]

\* Line 250 binds the reference conv to converters_[conv_index].  stop()
\* clears converters_ without the queue lock (line 1179): from then on the
\* reference of a tick in progress dangles.
Dangling == tick.pc # "idle" /\ TopEntry.conv_index_ >= Len(converters_)

\* What the tick reads through conv: the element of converters_, or, through
\* the dangling reference, what the element held when it was bound (the
\* other outcome of that read is TickCrash).
TickConv == IF Dangling THEN tick.conv ELSE Conv(TopEntry.conv_index_)

\* The publishing condition without its third conjunct.
PublishSelectedUnconsumed(name, isSubscribed) ==
  /\ publish_enabled_
  /\ Has(pub_map_, name)

\* Line 259: the publishing condition; isSubscribed is what the publisher found
\* under the name answers, the topic having a consumer or not.
PublishSelected(name, isSubscribed) ==
  /\ publish_enabled_
  /\ Has(pub_map_, name)
  /\ isSubscribed

\* The recording condition without the outcome of try_to_lock.
RecordSelectedUnlocked(name, lock_record) ==
  /\ record_enabled_
  /\ Has(rec_map_, name)
  /\ recorders[rec_map_[name]].isSubscribed

\* Line 271: the recording condition; lock_record is the outcome of try_to_lock.
RecordSelected(name, lock_record) ==
  /\ lock_record
  /\ record_enabled_
  /\ Has(rec_map_, name)
  /\ recorders[rec_map_[name]].isSubscribed

\* The buffering condition without the test of the frequency.
LogSelectedOneShot(conv) ==
  /\ log_enabled_
  /\ Has(rec_map_, conv.name)

\* Line 278: the buffering condition.
LogSelected(conv) ==
  /\ log_enabled_
  /\ Has(rec_map_, conv.name)
  /\ conv.frequency[1] # 0

\* An action set that takes each selected action at its front.
PushFront(actions, selected, action) == IF selected THEN <<action>> \o actions ELSE actions

\* Lines 261, 273, 280: actions.push_back(action) inside its condition.
Push(actions, selected, action) == IF selected THEN Append(actions, action) ELSE actions

\* Lines 303-307: the queue is empty, sleep one second.
TickIdle ==
  /\ tick.pc = "idle"
  /\ keep_looping
  /\ mutex_conv_queue_ = NoOne
  /\ conv_queue_ = <<>>
  /\ TimeLess(now, Seconds(MaxTime))
  /\ now' = TimeAdd(now, Seconds(1))
  /\ UNCHANGED <<registries, flags, mutex_conv_queue_, mutex_record_, recorder_, tick,
                 call, lastFire>>

\* Lines 246-262: lock the queue, peek the top, decide PUBLISH.
TickBegin ==
  /\ tick.pc = "idle"
  /\ keep_looping
  /\ mutex_conv_queue_ = NoOne
  /\ \E i \in Tops(conv_queue_), isSubscribed \in BOOLEAN :
       /\ TimeLess(conv_queue_[i].schedule_, Seconds(MaxTime))
       /\ tick' = [IdleTick EXCEPT
                     !.pc = "record", !.top = i, !.isSubscribed = isSubscribed,
                     !.conv = Conv(conv_queue_[i].conv_index_),
                     !.actions = Push(<<>>,
                       PublishSelected(Conv(conv_queue_[i].conv_index_).name, isSubscribed),
                       PUBLISH)]
  /\ mutex_conv_queue_' = Scheduler
  /\ UNCHANGED <<now, registries, flags, mutex_record_, recorder_, call, lastFire>>

\* The recording condition decided under a lock the tick waits for.
TickRecordWaits ==
  /\ tick.pc = "record"
  /\ mutex_record_ = NoOne
  /\ tick' = [tick EXCEPT
                !.pc = "log", !.isSubscribed = FALSE,
                !.actions = Push(@, RecordSelected(TickConv.name, TRUE), RECORD)]
  /\ UNCHANGED <<now, registries, flags, mutex_conv_queue_, mutex_record_, recorder_, call,
                 lastFire>>

\* Lines 268-275: try the record lock, decide RECORD, release the lock.
TickRecord ==
  /\ tick.pc = "record"
  /\ tick' = [tick EXCEPT
                !.pc = "log", !.isSubscribed = FALSE,
                !.actions = Push(@, RecordSelected(TickConv.name, mutex_record_ = NoOne), RECORD)]
  /\ UNCHANGED <<now, registries, flags, mutex_conv_queue_, mutex_record_, recorder_, call,
                 lastFire>>

\* Lines 277-281: decide LOG.
TickLog ==
  /\ tick.pc = "log"
  /\ LET actions == Push(tick.actions, LogSelected(TickConv), LOG)
     IN  tick' = [tick EXCEPT !.pc = "callAll", !.actions = actions, !.todo = actions]
  /\ UNCHANGED <<now, registries, flags, mutex_conv_queue_, mutex_record_, recorder_, call,
                 lastFire>>

\* GlobalRecorder::write: a message reaches the container only while one is open.
RecorderWrite(name) ==
  IF recorder_.isStarted
  THEN [recorder_ EXCEPT !.written = @ \cup {name}]
  ELSE recorder_

\* Recorder::bufferize: the buffer keeps the latest MaxBuffer samples.
Bufferize(rec) == [rec EXCEPT !.buffer = IF @ < MaxBuffer THEN @ + 1 ELSE @]

\* Lines 283-287, conv.callAll(actions): the task hands its sample to the
\* callback of each action in turn: the publisher, the recorder's write, the
\* recorder's bufferize.
CallAll ==
  /\ tick.pc = "callAll"
  /\ tick.todo # <<>>
  /\ LET action == Head(tick.todo)
         conv == TickConv
     IN  /\ recorder_' = IF action = RECORD /\ conv.rec # 0
                         THEN RecorderWrite(conv.name)
                         ELSE recorder_
         /\ recorders' = IF action = LOG /\ conv.rec # 0
                         THEN [recorders EXCEPT ![conv.rec] = Bufferize(@)]
                         ELSE recorders
         /\ tick' = [tick EXCEPT
                       !.todo = Tail(@),
                       !.writes = IF action = RECORD THEN @ + 1 ELSE @]
  /\ UNCHANGED <<now, converters_, conv_queue_, pub_map_, rec_map_, event_map_,
                 flags, mutex_conv_queue_, mutex_record_, call, dispatched, lastFire>>

\* Lines 266-299 read conv's name, callbacks and frequency: through the
\* dangling reference the read has no defined outcome, and the process may
\* end there, every thread with it and no lock released.
TickCrash ==
  /\ Dangling
  /\ tick.pc \in {"record", "log", "callAll"}
  /\ tick' = [tick EXCEPT !.pc = "crashed"]
  /\ call' = [c \in Callers |-> [call[c] EXCEPT !.pc = "crashed"]]
  /\ UNCHANGED <<now, registries, flags, mutex_conv_queue_, mutex_record_, recorder_,
                 lastFire>>

\* The periods line 299 computes for the frequencies in use.
Periods == [f \in {g \in Frequencies : g[1] # 0} |-> Period(f)]

\* A next fire time counted from the clock at dispatch.
RescheduleFromClock(schedule, period) == TimeAdd(now, period)

\* Line 299: the fire time of the next dispatch.
Reschedule(schedule, period) == TimeAdd(schedule, period)

\* Lines 289-300 and the end of the lock's scope: sleep until the fire time,
\* pop the entry, push the next one unless the task is one-shot.
TickFinish ==
  /\ tick.pc = "callAll"
  /\ tick.todo = <<>>
  /\ LET entry == TopEntry
         conv == TickConv
         popped == QueuePop(conv_queue_, tick.top)
     IN  /\ now' = TimeMax(now, entry.schedule_)
         /\ IF conv.frequency[1] # 0
            THEN \E period \in Periods[conv.frequency] :
                   conv_queue_' = QueuePush(popped,
                     ScheduledConverter(Reschedule(entry.schedule_, period), entry.conv_index_))
            ELSE conv_queue_' = popped
         /\ dispatched' = [dispatched EXCEPT ![conv.id].n = @ + 1]
         /\ lastFire' = entry.schedule_
  /\ tick' = IdleTick
  /\ mutex_conv_queue_' = NoOne
  /\ UNCHANGED <<converters_, recorders, pub_map_, rec_map_, event_map_, flags,
                 mutex_record_, recorder_, call>>


(***************************************************************************)
(* The GlobalRecorder behind recorder_: one container at a time.           *)
(***************************************************************************)
\* GlobalRecorder::startRecord: opens a container unless one is open.
StartRecord(by) ==
  IF recorder_.isStarted
  THEN recorder_
  ELSE [isStarted |-> TRUE, by |-> by, written |-> {}, dumped |-> {}]

\* Recorder::writeDump / Event::writeDump: the buffers of these sinks go into
\* the container, if one is open.
WriteDump(rec, sinks) ==
  IF rec.isStarted THEN [rec EXCEPT !.dumped = @ \cup sinks] ELSE rec

\* The recorders that the loops of lines 1067 and 1146 reach: those that
\* rec_map_ holds under the name of a task of converters_.
ReachedRecorders ==
  {rec_map_[converters_[i].name] :
     i \in {j \in 1..Len(converters_) : Has(rec_map_, converters_[j].name)}}

\* A loop that reaches no recorder.
SubscribeNone(value) == recorders

\* Lines 1067-1074 and 1146-1153: subscribe(value) on the recorder of every
\* task of converters_ that rec_map_ holds.
Subscribe(value) ==
  [r \in 1..Len(recorders) |->
     IF r \in ReachedRecorders THEN [recorders[r] EXCEPT !.isSubscribed = value]
     ELSE recorders[r]]

(***************************************************************************)
(* startRecording and stopRecording (lines 1063-1086 and 1142-1159): the   *)
(* body runs under mutex_record_, the return releases it.                  *)
(***************************************************************************)
StartRecording(c) ==
  /\ Idle(c)
  /\ mutex_record_ = NoOne
  /\ mutex_record_' = c
  /\ recorder_' = StartRecord("recording")
  /\ recorders' = Subscribe(TRUE)
  /\ event_map_' = SetEvents("isRecording", TRUE)
  /\ record_enabled_' = TRUE
  /\ call' = [call EXCEPT ![c] = [IdleCall EXCEPT !.pc = "return", !.op = "startRecording"]]
  /\ UNCHANGED <<now, converters_, conv_queue_, pub_map_, rec_map_,
                 publish_enabled_, log_enabled_, keep_looping, mutex_conv_queue_, tick,
                 dispatched, lastFire,
                 buffer_duration_>>

\* The body of stopRecording, entered by a caller or by a dump (lines 339-342).
StopRecordingBody(c) ==
  /\ mutex_record_ = NoOne
  /\ mutex_record_' = c
  /\ record_enabled_' = FALSE
  /\ recorders' = Subscribe(FALSE)
  /\ event_map_' = SetEvents("isRecording", FALSE)
  /\ recorder_' = ClosedRecorder
  /\ UNCHANGED <<now, converters_, conv_queue_, pub_map_, rec_map_,
                 publish_enabled_, log_enabled_, keep_looping, mutex_conv_queue_, tick,
                 dispatched, lastFire,
                 buffer_duration_>>

StopRecording(c) ==
  /\ Idle(c)
  /\ StopRecordingBody(c)
  /\ call' = [call EXCEPT ![c] = [IdleCall EXCEPT !.pc = "return", !.op = "stopRecording"]]

\* startRecordingConverters(names), lines 1088-1140, under mutex_record_: a
\* name that rec_map_ holds subscribes its recorder, else a name that
\* event_map_ holds sets the event recording, else a message; the container
\* is opened at the first name found and record_enabled_ set if one was.
NamedRecorders(names) == {rec_map_[name] : name \in names \cap DOMAIN rec_map_}

NamedEvents(names) == (names \cap DOMAIN event_map_) \ DOMAIN rec_map_

StartRecordingConverters(c, names) ==
  /\ Idle(c)
  /\ mutex_record_ = NoOne
  /\ mutex_record_' = c
  /\ LET is_started == NamedRecorders(names) # {} \/ NamedEvents(names) # {}
     IN  /\ recorder_' = IF is_started THEN StartRecord("recording") ELSE recorder_
         /\ record_enabled_' = (record_enabled_ \/ is_started)
  /\ recorders' = [r \in 1..Len(recorders) |->
                     IF r \in NamedRecorders(names)
                     THEN [recorders[r] EXCEPT !.isSubscribed = TRUE]
                     ELSE recorders[r]]
  /\ event_map_' = [key \in DOMAIN event_map_ |->
                      IF key \in NamedEvents(names)
                      THEN [event_map_[key] EXCEPT !.isRecording = TRUE]
                      ELSE event_map_[key]]
  /\ call' = [call EXCEPT ![c] = [IdleCall EXCEPT !.pc = "return",
                       !.op = "startRecordingConverters", !.names = names]]
  /\ UNCHANGED <<now, converters_, conv_queue_, pub_map_, rec_map_,
                 publish_enabled_, log_enabled_, keep_looping, mutex_conv_queue_, tick,
                 dispatched, lastFire,
                 buffer_duration_>>

(***************************************************************************)
(* stop(), lines 1171-1183, statement by statement; it takes no lock.      *)
(* subscribers_ and the spin of line 1182 are not part of the model.       *)
(***************************************************************************)
\* Line 1173: keep_looping = false.
Stop(c) ==
  /\ Idle(c)
  /\ keep_looping' = FALSE
  /\ call' = [call EXCEPT ![c] = [IdleCall EXCEPT !.pc = "stopProcess", !.op = "stop"]]
  /\ UNCHANGED <<now, registries, publish_enabled_, record_enabled_, log_enabled_,
                 mutex_conv_queue_, mutex_record_, recorder_, tick, lastFire,
                 buffer_duration_>>

\* Lines 1174-1177: stopProcess() on every event of event_map_.
StopProcess(c) ==
  /\ call[c].pc = "stopProcess"
  /\ event_map_' = SetEvents("started", FALSE)
  /\ call' = [call EXCEPT ![c].pc = "converters_.clear"]
  /\ UNCHANGED <<now, converters_, conv_queue_, recorders, pub_map_, rec_map_,
                 flags, mutex_conv_queue_, mutex_record_, recorder_, tick, dispatched,
                 lastFire>>

\* Line 1179: converters_.clear().
StopClearConverters(c) ==
  /\ call[c].pc = "converters_.clear"
  /\ converters_' = <<>>
  /\ call' = [call EXCEPT ![c].pc = "event_map_.clear"]
  /\ UNCHANGED <<now, conv_queue_, recorders, pub_map_, rec_map_, event_map_,
                 flags, mutex_conv_queue_, mutex_record_, recorder_, tick, dispatched,
                 lastFire>>

\* Lines 1181-1183: event_map_.clear() and the return.
StopClearEvents(c) ==
  /\ call[c].pc = "event_map_.clear"
  /\ event_map_' = <<>>
  /\ call' = [call EXCEPT ![c] = IdleCall]
  /\ UNCHANGED <<now, converters_, conv_queue_, recorders, pub_map_, rec_map_,
                 flags, mutex_conv_queue_, mutex_record_, recorder_, tick, dispatched,
                 lastFire>>

DumpOps == {"minidump", "minidumpConverters"}

\* The scoped lock of startRecording / stopRecording goes out of scope.
Return(c) ==
  /\ call[c].pc = "return"
  /\ mutex_record_' = NoOne
  /\ call' = [call EXCEPT ![c] = IF call[c].op \in DumpOps
                                  THEN [@ EXCEPT !.pc = "disable"]
                                  ELSE IdleCall]
  /\ UNCHANGED <<now, registries, flags, mutex_conv_queue_, recorder_, tick, lastFire>>


(***************************************************************************)
(* minidump(prefix) and minidumpConverters(prefix, names), lines 316-458.  *)
(***************************************************************************)
BufferingDisabled == "Log is not enabled"
StorageExhausted == "No more space on robot"
NoMatchingSinks == "Could not find any topic in converters"
ContainerId == "container"
Exception == "exception"

\* A rejection that has stopped bufferizing before it returns the error.
RejectAfterDisable(c, err, tooBig) ==
  /\ call' = [call EXCEPT ![c] = [IdleCall EXCEPT !.ret = err, !.tooBig = tooBig]]
  /\ log_enabled_' = FALSE
  /\ event_map_' = SetEvents("isDumping", TRUE)
  /\ UNCHANGED <<now, converters_, conv_queue_, recorders, pub_map_, rec_map_,
                 dispatched, publish_enabled_, record_enabled_, keep_looping,
                 mutex_conv_queue_, mutex_record_, recorder_, tick, lastFire,
                 buffer_duration_>>

\* Lines 318-336 and 377-395: the call returns the error and does nothing else.
Reject(c, err, tooBig) ==
  /\ call' = [call EXCEPT ![c] = [IdleCall EXCEPT !.ret = err, !.tooBig = tooBig]]
  /\ UNCHANGED <<now, registries, flags, mutex_conv_queue_, mutex_record_, recorder_, tick,
                 lastFire>>

\* The call and its two preconditions.  op and names say which of the two
\* functions is called; tooBig is files_size > folderMaximumSize.
Dump(c, op, names, tooBig) ==
  /\ Idle(c)
  /\ IF ~log_enabled_ THEN Reject(c, BufferingDisabled, tooBig)
     ELSE IF tooBig THEN Reject(c, StorageExhausted, tooBig)
     ELSE /\ call' = [call EXCEPT ![c] = [IdleCall EXCEPT
                        !.pc = "stopRecording", !.op = op, !.names = names,
                        !.tooBig = tooBig, !.wasRecording = record_enabled_]]
          /\ UNCHANGED <<now, registries, flags, mutex_conv_queue_, mutex_record_,
                         recorder_, tick, lastFire>>

\* Lines 338-342: a recording session is stopped first.
DumpStopRecording(c) ==
  /\ call[c].pc = "stopRecording"
  /\ record_enabled_
  /\ StopRecordingBody(c)
  /\ call' = [call EXCEPT ![c].pc = "return"]

DumpNoRecording(c) ==
  /\ call[c].pc = "stopRecording"
  /\ ~record_enabled_
  /\ call' = [call EXCEPT ![c].pc = "disable"]
  /\ UNCHANGED <<now, registries, flags, mutex_conv_queue_, mutex_record_, recorder_, tick,
                 lastFire>>

\* Lines 344-350: stop bufferizing.
DumpDisable(c) ==
  /\ call[c].pc = "disable"
  /\ log_enabled_' = FALSE
  /\ event_map_' = SetEvents("isDumping", TRUE)
  /\ call' = [call EXCEPT ![c].pc = "lock"]
  /\ UNCHANGED <<now, converters_, conv_queue_, recorders, pub_map_, rec_map_,
                 dispatched, publish_enabled_, record_enabled_, keep_looping,
                 mutex_conv_queue_, mutex_record_, recorder_, tick, lastFire,
                 buffer_duration_>>

\* The sinks whose buffer the dump writes: all of them (lines 357-364), or
\* those of names found in rec_map_ or event_map_ (lines 415-440).
DumpTargets(c) ==
  IF call[c].op = "minidump"
  THEN DOMAIN event_map_ \cup DOMAIN rec_map_
  ELSE call[c].names \cap (DOMAIN event_map_ \cup DOMAIN rec_map_)

\* An exception leaves the function: the scoped lock is released on the way.
Throw(c) ==
  /\ mutex_record_' = NoOne
  /\ call' = [call EXCEPT ![c] = [IdleCall EXCEPT !.ret = Exception]]

\* Lines 353-354 and 412: take the record lock; minidump opens the container.
DumpLock(c) ==
  /\ call[c].pc = "lock"
  /\ mutex_record_ = NoOne
  /\ mutex_record_' = c
  /\ recorder_' = IF call[c].op = "minidump" THEN StartRecord("dump") ELSE recorder_
  /\ call' = [call EXCEPT ![c] = [@ EXCEPT
                !.pc = "write", !.is_started = call[c].op = "minidump"]]
  /\ UNCHANGED <<now, registries, flags, mutex_conv_queue_, tick, lastFire>>

\* recorder_->startRecord(prefix) of line 354 throws: the container cannot be opened.
DumpOpenFails(c) ==
  /\ call[c].pc = "lock"
  /\ call[c].op = "minidump"
  /\ mutex_record_ = NoOne
  /\ Throw(c)
  /\ UNCHANGED <<now, registries, flags, mutex_conv_queue_, recorder_, tick, lastFire>>

\* Lines 356-364 and 415-440: write the buffers; minidumpConverters opens the
\* container at the first name it finds.
DumpWrite(c) ==
  /\ call[c].pc = "write"
  /\ LET targets == DumpTargets(c)
         open == IF targets # {} THEN StartRecord("dump") ELSE recorder_
     IN  /\ recorder_' = WriteDump(open, targets)
         /\ call' = [call EXCEPT ![c] = [@ EXCEPT
                       !.pc = "restore", !.is_started = @ \/ targets # {}]]
  /\ UNCHANGED <<now, registries, flags, mutex_conv_queue_, mutex_record_, tick, lastFire>>

\* A writeDump (or the startRecord of lines 422 and 434) throws: the sinks in
\* written were flushed before it.
DumpWriteFails(c) ==
  /\ call[c].pc = "write"
  /\ \E failing \in DumpTargets(c) :
       \E written \in SUBSET (DumpTargets(c) \ {failing}) :
         recorder_' = IF written # {} \/ call[c].op = "minidump"
                      THEN WriteDump(StartRecord("dump"), written)
                      ELSE recorder_
  /\ Throw(c)
  /\ UNCHANGED <<now, registries, flags, mutex_conv_queue_, tick, lastFire>>

\* Lines 366-371 and 441-446: restart bufferizing.
DumpRestore(c) ==
  /\ call[c].pc = "restore"
  /\ log_enabled_' = TRUE
  /\ event_map_' = SetEvents("isDumping", FALSE)
  /\ call' = [call EXCEPT ![c].pc = "close"]
  /\ UNCHANGED <<now, converters_, conv_queue_, recorders, pub_map_, rec_map_,
                 dispatched, publish_enabled_, record_enabled_, keep_looping,
                 mutex_conv_queue_, mutex_record_, recorder_, tick, lastFire,
                 buffer_duration_>>

\* Lines 372 and 447-457: close the container and return its name, or the
\* error of minidumpConverters when it found no name.
DumpReturn(c) ==
  /\ call[c].pc = "close"
  /\ recorder_' = IF call[c].is_started THEN ClosedRecorder ELSE recorder_
  /\ mutex_record_' = NoOne
  /\ call' = [call EXCEPT ![c] = [IdleCall EXCEPT
                !.ret = IF call[c].is_started THEN ContainerId ELSE NoMatchingSinks]]
  /\ UNCHANGED <<now, registries, flags, mutex_conv_queue_, tick, lastFire>>

(***************************************************************************)
(* The specifications.  Spec follows the callers, the dumps and the tick   *)
(* side by side; Schedule follows the fire times of up to MaxTasks tasks   *)
(* while the clock runs.                                                   *)
(***************************************************************************)
RegisterSinks(c) ==
  \/ RegisterPublisher(c)
  \/ RegisterRecorder(c)

RegisterEvent(c) ==
  \/ \E key \in Names :
       /\ Has(event_map_, key) \/ Cardinality(DOMAIN event_map_) < MaxEvents
       /\ RegisterEventConverter(c, key)
  \/ EventKeepLooping(c)
  \/ EventStartProcess(c)
  \/ EventIsPublishing(c)

Toggle(c) ==
  \/ StartPublishing(c)
  \/ StopPublishing(c)
  \/ StartLogging(c)
  \/ StopLogging(c)
  \/ StartRecording(c)
  \/ StopRecording(c)
  \/ Return(c)

Minidump(c) ==
  \/ \E tooBig \in BOOLEAN : Dump(c, "minidump", {}, tooBig)
  \/ \E names \in SUBSET Names, tooBig \in BOOLEAN : Dump(c, "minidumpConverters", names, tooBig)
  \/ DumpStopRecording(c)
  \/ DumpNoRecording(c)
  \/ DumpDisable(c)
  \/ DumpLock(c)
  \/ DumpOpenFails(c)
  \/ DumpWrite(c)
  \/ DumpWriteFails(c)
  \/ DumpRestore(c)
  \/ DumpReturn(c)

RosIteration ==
  \/ TickIdle
  \/ TickBegin
  \/ TickRecord
  \/ TickLog
  \/ CallAll
  \/ TickFinish

Next ==
  \/ \E c \in OneCaller :
       \/ \E name \in Names, frequency \in {<<0, 1>>, <<1, 1>>}, overload \in Overloads :
            /\ Len(dispatched) < MaxConverters
            /\ RegisterConverter(c, name, frequency, overload)
       \/ RegisterSinks(c)
       \/ RegisterEvent(c)
       \/ Toggle(c)
       \/ Minidump(c)
  \/ RosIteration

Spec == Init /\ [][Next]_vars

NextSchedule ==
  \/ \E c \in OneCaller :
       \/ \E frequency \in Frequencies :
            /\ Len(dispatched) < MaxTasks
            /\ RegisterConverter(c, "a", frequency, "publisher")
       \/ RegisterPublisher(c)
       \/ StartPublishing(c)
  \/ RosIteration
  \/ \E d \in ElapseSteps : Elapse(d)

Schedule == Init /\ [][NextSchedule]_vars

\* Sessions follows recording sessions and dumps of two callers over the
\* recorder of one task and the events they register, without the tick.
Record(c) ==
  \/ StartRecording(c)
  \/ \E names \in SUBSET Names : StartRecordingConverters(c, names)
  \/ StopRecording(c)
  \/ Return(c)

NextSessions ==
  \E c \in Callers :
    \/ /\ Len(dispatched) < MaxConverters
       /\ RegisterConverter(c, "a", <<1, 1>>, "recorder")
    \/ RegisterRecorder(c)
    \/ RegisterEvent(c)
    \/ StartLogging(c)
    \/ Record(c)
    \/ Minidump(c)

Sessions == Init /\ [][NextSessions]_vars

\* Lifecycle follows registrations, recording sessions and stop() of two
\* callers, without the tick.
StopSteps(c) ==
  \/ Stop(c)
  \/ StopProcess(c)
  \/ StopClearConverters(c)
  \/ StopClearEvents(c)

NextLifecycle ==
  \E c \in Callers :
    \/ \E name \in Names :
         /\ Len(dispatched) < MaxRegistrations
         /\ RegisterConverter(c, name, <<1, 1>>, "both")
    \/ RegisterSinks(c)
    \/ RegisterEvent(c)
    \/ EventErased(c)
    \/ Record(c)
    \/ StopSteps(c)

Lifecycle == Init /\ [][NextLifecycle]_vars

\* Registration follows the registrations, recording sessions and stop() of
\* two callers beside the tick, until the process ends.
NextRegistration ==
  \/ \E c \in Callers :
       \/ /\ Len(dispatched) < MaxRegistrations
          /\ RegisterConverter(c, "a", <<1, 1>>, "both")
       \/ RegisterSinks(c)
       \/ StartRecording(c)
       \/ StopRecording(c)
       \/ Return(c)
       \/ StopSteps(c)
  \/ RosIteration
  \/ TickCrash

Registration == Init /\ [][NextRegistration]_vars

\* Shutdown follows one caller's registrations, publishing switches and
\* stop() beside the tick, until the process ends.
NextShutdown ==
  \/ \E c \in OneCaller :
       \/ \E frequency \in {<<0, 1>>, <<1, 1>>} :
            /\ Len(dispatched) < MaxRegistrations
            /\ RegisterConverter(c, "a", frequency, "both")
       \/ RegisterSinks(c)
       \/ RegisterEvent(c)
       \/ StartPublishing(c)
       \/ StopPublishing(c)
       \/ StopSteps(c)
  \/ RosIteration
  \/ TickCrash

Shutdown == Init /\ [][NextShutdown]_vars

(***************************************************************************)
(* run() (lines 141-204).  The thread of run() registers the defaults,     *)
(* makes one iteration, re-attaches under the queue lock and then loops.   *)
(* The boot configuration enables one default task, or none; it is kept    *)
(* in names, and its recorder and publisher are registered with it.        *)
(***************************************************************************)
\* registerConverter(conv, pub, rec) of lines 512-517 as registerDefaultConverter
\* calls it for a task the configuration enables, in the thread of run().
RegisterDefaultTask(name, frequency) ==
  LET conv == [name |-> name, frequency |-> frequency, id |-> Len(dispatched) + 1,
               pub |-> Len(dispatched) + 1, rec |-> Len(recorders) + 1]
  IN  /\ converters_' = Append(converters_, conv)
      /\ conv_queue_' = QueuePush(conv_queue_,
                          ScheduledConverter(SeedSchedule, Len(converters_)))
      /\ recorders' = Append(recorders, NewRecorder)
      /\ pub_map_' = MapInsert(pub_map_, name, conv.pub)
      /\ rec_map_' = MapInsert(rec_map_, name, conv.rec)
      /\ dispatched' = Append(dispatched, [n |-> 0, seed |-> SeedSchedule])

\* Lines 143-146: run() begins; registerDefaultConverter registers the task
\* the configuration enables, each registerConverter(conv) under the queue lock.
RunDefaults(c) ==
  /\ Idle(c)
  /\ Len(dispatched) < MaxRegistrations
  /\ mutex_conv_queue_ = NoOne
  /\ \E names \in {{}, {"a"}}, frequency \in {<<0, 1>>, <<1, 1>>} :
       /\ IF names # {}
          THEN RegisterDefaultTask("a", frequency)
          ELSE UNCHANGED <<converters_, conv_queue_, recorders, pub_map_, rec_map_,
                           dispatched>>
       /\ call' = [call EXCEPT ![c] = [IdleCall EXCEPT
                     !.pc = "run.rosIteration", !.op = "run", !.names = names]]
  /\ UNCHANGED <<now, event_map_, flags, mutex_conv_queue_, mutex_record_, recorder_,
                 tick, lastFire>>

\* What line 250 reads as the frequency of the task of an entry: that of
\* converters_[conv_index], or, when stop() has cleared converters_, whatever
\* the memory holds.
ReadFrequency(entry) ==
  IF entry.conv_index_ < Len(converters_)
  THEN {Conv(entry.conv_index_).frequency}
  ELSE {<<0, 1>>, <<1, 1>>}

\* Lines 152 and 201-203: rosIteration() in the thread of run(), first once
\* and then while keep_looping.  With recording and buffering off the
\* iteration pops the top entry and pushes the next one, or sleeps on the
\* empty queue; the queue lock is taken and released inside it.
RunIteration(c) ==
  /\ call[c].pc \in {"run.rosIteration", "run.loop"}
  /\ call[c].pc = "run.loop" => keep_looping
  /\ mutex_conv_queue_ = NoOne
  /\ IF conv_queue_ = <<>>
     THEN /\ TimeLess(now, Seconds(MaxTime))
          /\ now' = TimeAdd(now, Seconds(1))
          /\ UNCHANGED <<conv_queue_, dispatched, lastFire>>
     ELSE \E i \in Tops(conv_queue_) :
            LET entry == conv_queue_[i]
                popped == QueuePop(conv_queue_, i)
            IN  /\ TimeLess(entry.schedule_, Seconds(MaxTime))
                /\ now' = TimeMax(now, entry.schedule_)
                /\ lastFire' = entry.schedule_
                /\ \E frequency \in ReadFrequency(entry) :
                     IF frequency[1] # 0
                     THEN \E period \in Periods[frequency] :
                            conv_queue_' = QueuePush(popped,
                              ScheduledConverter(Reschedule(entry.schedule_, period),
                                                 entry.conv_index_))
                     ELSE conv_queue_' = popped
                /\ dispatched' = IF entry.conv_index_ < Len(converters_)
                                 THEN [dispatched EXCEPT
                                         ![Conv(entry.conv_index_).id].n = @ + 1]
                                 ELSE dispatched
  /\ call' = [call EXCEPT ![c].pc = IF @ = "run.rosIteration" THEN "run.lock" ELSE @]
  /\ UNCHANGED <<converters_, recorders, pub_map_, rec_map_, event_map_, flags,
                 mutex_conv_queue_, mutex_record_, recorder_, tick>>

\* Line 250 in the thread of run(): converters_[conv_index] of an entry
\* whose task stop() has cleared; the process may end there.
RunCrash(c) ==
  /\ call[c].pc \in {"run.rosIteration", "run.loop"}
  /\ call[c].pc = "run.loop" => keep_looping
  /\ mutex_conv_queue_ = NoOne
  /\ \E i \in Tops(conv_queue_) : conv_queue_[i].conv_index_ >= Len(converters_)
  /\ tick' = [tick EXCEPT !.pc = "crashed"]
  /\ call' = [d \in Callers |-> [call[d] EXCEPT !.pc = "crashed"]]
  /\ UNCHANGED <<now, registries, flags, mutex_conv_queue_, mutex_record_, recorder_,
                 lastFire>>

\* Line 161: boost::mutex::scoped_lock lock( mutex_conv_queue_ ).
RunLock(c) ==
  /\ call[c].pc = "run.lock"
  /\ mutex_conv_queue_ = NoOne
  /\ mutex_conv_queue_' = c
  /\ call' = [call EXCEPT ![c].pc = "run.reattach"]
  /\ UNCHANGED <<now, registries, flags, mutex_record_, recorder_, tick, lastFire>>

\* Lines 163-197: with converters_ empty, registerDefaultConverter again,
\* which calls registerConverter(conv) for the task the configuration
\* enables: it asks for the queue lock at line 480.  Otherwise the
\* publishers are reset.
RunReattach(c) ==
  /\ call[c].pc = "run.reattach"
  /\ call' = [call EXCEPT ![c].pc =
                IF converters_ = <<>> /\ call[c].names # {}
                THEN "run.registerConverter"
                ELSE "run.startPublishing"]
  /\ UNCHANGED <<now, registries, flags, mutex_conv_queue_, mutex_record_, recorder_,
                 tick, lastFire>>

\* Lines 198-200: startPublishing(), and the scope of the lock ends.
RunStartPublishing(c) ==
  /\ call[c].pc = "run.startPublishing"
  /\ publish_enabled_' = TRUE
  /\ event_map_' = SetEvents("isPublishing", TRUE)
  /\ mutex_conv_queue_' = NoOne
  /\ call' = [call EXCEPT ![c].pc = "run.loop"]
  /\ UNCHANGED <<now, converters_, conv_queue_, recorders, pub_map_, rec_map_,
                 dispatched, record_enabled_, log_enabled_, keep_looping,
                 buffer_duration_, mutex_record_, recorder_, tick, lastFire>>

\* Lines 201-204: keep_looping is false, run() returns.
RunReturn(c) ==
  /\ call[c].pc = "run.loop"
  /\ ~keep_looping
  /\ call' = [call EXCEPT ![c] = IdleCall]
  /\ UNCHANGED <<now, registries, flags, mutex_conv_queue_, mutex_record_, recorder_,
                 tick, lastFire>>

Run(c) ==
  \/ RunDefaults(c)
  \/ RunIteration(c)
  \/ RunCrash(c)
  \/ RunLock(c)
  \/ RunReattach(c)
  \/ RunStartPublishing(c)
  \/ RunReturn(c)

\* One thread inside run(), another that registers events and calls stop().
NextStartup ==
  \/ \E c \in OneCaller : Run(c)
  \/ \E c \in Callers \ OneCaller :
       \/ RegisterEvent(c)
       \/ StopSteps(c)

Startup == Init /\ [][NextStartup]_vars

(***************************************************************************)
(* The buffer horizon (lines 460-476).                                     *)
(***************************************************************************)
\* The horizons a caller asks for, in seconds.
Durations == {BufferDefaultDuration, BufferDefaultDuration + 1}

\* The recorder objects rec_map_ holds.
MappedRecorders == {rec_map_[name] : name \in DOMAIN rec_map_}

\* setBufferDuration(duration): the recorders of rec_map_, the events of
\* event_map_, then the member buffer_duration_.
SetBufferDuration(c, duration) ==
  /\ Idle(c)
  /\ recorders' = [r \in 1..Len(recorders) |->
                     IF r \in MappedRecorders
                     THEN [recorders[r] EXCEPT !.buffer_duration = duration]
                     ELSE recorders[r]]
  /\ event_map_' = SetEvents("buffer_duration", duration)
  /\ buffer_duration_' = duration
  /\ call' = [call EXCEPT ![c] = IdleCall]
  /\ UNCHANGED <<now, converters_, conv_queue_, pub_map_, rec_map_, dispatched,
                 publish_enabled_, record_enabled_, log_enabled_, keep_looping,
                 mutex_conv_queue_, mutex_record_, recorder_, tick, lastFire>>

\* getBufferDuration(): return buffer_duration_.
GetBufferDuration == buffer_duration_

\* Registrations of tasks with recorders and of events, beside changes of
\* the horizon.
NextHorizon ==
  \E c \in Callers :
    \/ /\ Len(dispatched) < MaxRegistrations
       /\ RegisterConverter(c, "a", <<1, 1>>, "both")
    \/ RegisterSinks(c)
    \/ RegisterEvent(c)
    \/ \E duration \in Durations : SetBufferDuration(c, duration)

Horizon == Init /\ [][NextHorizon]_vars

\* The registration of events, the default ones and those a caller adds,
\* with starts that fail, beside the flag of publishing and the idle tick.
NextDefaults ==
  \/ \E c \in Callers :
       \/ RegisterDefaultConverter(c)
       \/ RegisterEvent(c)
       \/ EventStartFails(c)
       \/ StartPublishing(c)
       \/ StopPublishing(c)
  \/ TickIdle

Defaults == Init /\ [][NextDefaults]_vars

\* One caller at a time: the registrations of events and the switches of
\* publishing, each call ended before the next begins.
NextOneAtATime ==
  \E c \in OneCaller :
    \/ RegisterDefaultConverter(c)
    \/ RegisterEvent(c)
    \/ EventStartFails(c)
    \/ StartPublishing(c)
    \/ StopPublishing(c)

OneAtATime == Init /\ [][NextOneAtATime]_vars

(***************************************************************************)
(* The action set of a tick.                                               *)
(***************************************************************************)
\* Lines 243 and 283: whether the vector actions holds the action.
Selected(actions, action) == \E k \in 1..Len(actions) : actions[k] = action

\* The steps of a tick, told by the position before and after.
BeginStep == tick.pc = "idle" /\ tick'.pc = "record"
RecordStep == tick.pc = "record" /\ tick'.pc = "log"
LogStep == tick.pc = "log" /\ tick'.pc = "callAll"
FinishStep == tick.pc = "callAll" /\ tick'.pc = "idle"

\* The name of the task the tick that begins in this step dispatches.
BegunName == Conv(conv_queue_[tick'.top].conv_index_).name

\* C1: in every tick PUBLISH is selected for the dispatched task if and only if
\* publish_enabled_ is true, pub_map_ has an entry under the task's name and
\* that publisher reports isSubscribed; the later steps of the tick leave the
\* selection as it is.
C1_PublishIff ==
  [][/\ BeginStep =>
          (Selected(tick'.actions, PUBLISH)
             <=> (publish_enabled_ /\ BegunName \in DOMAIN pub_map_ /\ tick'.isSubscribed))
     /\ (RecordStep \/ LogStep) =>
          (Selected(tick'.actions, PUBLISH) <=> Selected(tick.actions, PUBLISH))]_vars

\* C1, its cases: a tick that selected PUBLISH, and ticks that did not because
\* the flag, the entry or the consumer was the one thing missing.
C1_Witness ==
  /\ tick.pc = "record"
  /\ Selected(tick.actions, PUBLISH)

C1_WitnessNotConsumed ==
  /\ tick.pc = "record"
  /\ ~Selected(tick.actions, PUBLISH)
  /\ publish_enabled_
  /\ TickConv.name \in DOMAIN pub_map_
  /\ ~tick.isSubscribed

\* C2: in every tick RECORD is selected if and only if the try_to_lock of
\* mutex_record_ succeeds, record_enabled_ is true, rec_map_ has an entry under
\* the task's name and that recorder isSubscribed; a tick that selected RECORD
\* has made exactly one write when it ends, and a tick that did not has made none.
C2_RecordIff ==
  [][/\ RecordStep =>
          (Selected(tick'.actions, RECORD)
             <=> /\ mutex_record_ = NoOne
                 /\ record_enabled_
                 /\ TickConv.name \in DOMAIN rec_map_
                 /\ recorders[rec_map_[TickConv.name]].isSubscribed)
     /\ LogStep => (Selected(tick'.actions, RECORD) <=> Selected(tick.actions, RECORD))
     /\ FinishStep => tick.writes = (IF Selected(tick.actions, RECORD) THEN 1 ELSE 0)]_vars

\* C2, its case: a tick that selected RECORD has handed its one write over and
\* is about to end.
C2_Witness ==
  /\ tick.pc = "callAll"
  /\ tick.todo = <<>>
  /\ Selected(tick.actions, RECORD)
  /\ tick.writes = 1

\* C2, the case of the lock: recording is on for the task's recorder, the lock
\* is held by a caller, and the tick has not selected RECORD.
C2_WitnessLockHeld ==
  /\ tick.pc = "log"
  /\ ~Selected(tick.actions, RECORD)
  /\ mutex_record_ # NoOne
  /\ record_enabled_
  /\ TickConv.rec # 0
  /\ recorders[TickConv.rec].isSubscribed

\* C3: in every tick LOG is selected if and only if log_enabled_ is true,
\* rec_map_ has an entry under the task's name and the task's frequency is not
\* 0; a task of frequency 0 is never buffered.
C3_LogIff ==
  [][LogStep =>
       /\ Selected(tick'.actions, LOG)
            <=> /\ log_enabled_
                /\ TickConv.name \in DOMAIN rec_map_
                /\ TickConv.frequency # <<0, 1>>
       /\ TickConv.frequency = <<0, 1>> => ~Selected(tick'.actions, LOG)]_vars

\* C3, its cases: a tick that selected LOG, and the tick of a task of frequency
\* 0 that did not although the flag is set and the recorder is registered.
C3_Witness ==
  /\ tick.pc = "callAll"
  /\ Selected(tick.actions, LOG)

C3_WitnessOneShot ==
  /\ tick.pc = "callAll"
  /\ ~Selected(tick.actions, LOG)
  /\ log_enabled_
  /\ TickConv.name \in DOMAIN rec_map_
  /\ TickConv.frequency = <<0, 1>>

(***************************************************************************)
(* The fire times.                                                         *)
(***************************************************************************)
\* The positions of the queue that hold an entry of the task conv_index.
EntriesOf(q, conv_index) == {k \in 1..Len(q) : q[k].conv_index_ = conv_index}

\* 1/f seconds, for the frequencies f that divide a second into nanoseconds.
ExactPeriod(f) == <<f[2] \div f[1], ((f[2] % f[1]) * NanosPerSecond) \div f[1]>>

\* What rounding 1/f to single precision can change in a period: less than
\* 2^-23 of it.
Rounding(period) ==
  <<0, (period[1] + 1) * (NanosPerSecond \div Pow2(FloatMantissaBits - 1))>>

Near(t, period) ==
  /\ TimeLeq(TimeSub(period, Rounding(period)), t)
  /\ TimeLeq(t, TimeAdd(period, Rounding(period)))

\* The frequencies of the scenario of three tasks: whole numbers of Hz.
Whole(f) == f[2] = 1 /\ f[1] >= 1

\* C4: for every task of frequency f > 0 the fire time pushed at the end of a
\* tick is the fire time just dispatched plus 1/f (up to the rounding of 1/f
\* to single precision), whatever the clock shows: it is counted from the
\* previous fire time, not from the clock.
C4_ExactPeriod ==
  [][(FinishStep /\ TickConv.frequency # <<0, 1>>) =>
       /\ Cardinality(EntriesOf(conv_queue_', TopEntry.conv_index_)) = 1
       /\ \A k \in EntriesOf(conv_queue_', TopEntry.conv_index_) :
            Near(TimeSub(conv_queue_'[k].schedule_, TopEntry.schedule_),
                 ExactPeriod(TickConv.frequency))]_vars

\* C4, its case: a task of 1/8 Hz has been dispatched once and waits for a fire
\* time that is less than 8 seconds after the first.
C4_Witness ==
  \E i \in 1..Len(converters_) :
    /\ converters_[i].frequency = <<1, 8>>
    /\ dispatched[i].n = 1
    /\ \E k \in EntriesOf(conv_queue_, i - 1) :
         TimeLess(conv_queue_[k].schedule_, TimeAdd(dispatched[i].seed, Seconds(5)))

\* C5: a task of frequency 0 is dispatched at most once; until its dispatch the
\* queue holds one entry for it, and from then on none.
C5_OneShotOnce ==
  \A i \in 1..Len(converters_) :
    converters_[i].frequency = <<0, 1>> =>
      /\ dispatched[i].n <= 1
      /\ Cardinality(EntriesOf(conv_queue_, i - 1)) = 1 - dispatched[i].n

\* C5, its case: a task of frequency 0 has been dispatched and another task has
\* been dispatched twice since it was registered.
C5_Witness ==
  \E i, j \in 1..Len(converters_) :
    /\ converters_[i].frequency = <<0, 1>>
    /\ dispatched[i].n = 1
    /\ i < j
    /\ dispatched[j].n >= 2

\* C6: every tick dispatches an entry whose fire time is the least of the
\* queue, and the fire times dispatched one after another never decrease,
\* registrations between the ticks included.
C6_FireTimeOrder ==
  [][/\ BeginStep =>
          \A k \in 1..Len(conv_queue_) :
            TimeLeq(conv_queue_[tick'.top].schedule_, conv_queue_[k].schedule_)
     /\ FinishStep => TimeLeq(lastFire, TopEntry.schedule_)]_vars

\* C6, its case: the tick dispatches a task registered later while a task
\* registered before it waits in the queue for a later fire time.
C6_Witness ==
  /\ tick.pc = "callAll"
  /\ TimeLess(Zero, lastFire)
  /\ \E k \in 1..Len(conv_queue_) :
       /\ conv_queue_[k].conv_index_ < TopEntry.conv_index_
       /\ TimeLess(TopEntry.schedule_, conv_queue_[k].schedule_)

\* After n dispatches a task of f Hz waits for a fire time in the second
\* number n div f after its registration: each second holds f fire times.
PerSecond(i) ==
  LET f == converters_[i].frequency
      window == TimeAdd(dispatched[i].seed, Seconds((dispatched[i].n * f[2]) \div f[1]))
      entries == EntriesOf(conv_queue_, i - 1)
  IN  /\ Cardinality(entries) = 1
      /\ \A k \in entries :
           /\ TimeLeq(window, conv_queue_[k].schedule_)
           /\ TimeLess(conv_queue_[k].schedule_, TimeAdd(window, Seconds(1)))

\* The three tasks of the scenario, registered in its order at one clock value.
ScenarioRegistered ==
  /\ Len(converters_) = 3
  /\ converters_[1].frequency = <<10, 1>>
  /\ converters_[2].frequency = <<0, 1>>
  /\ converters_[3].frequency = <<1, 1>>
  /\ \A j \in 1..3 : dispatched[j].seed = dispatched[1].seed

\* C7 as stated: with the tasks of 10 Hz, 0 Hz and 1 Hz registered together the
\* first tick dispatches the task of 0 Hz, that task is dispatched once, and
\* every task of f Hz has f fire times in each second.
C7_OneShotAtFirstTick ==
  [][/\ (FinishStep /\ ScenarioRegistered /\ \A j \in 1..3 : dispatched[j].n = 0) =>
          TickConv.frequency = <<0, 1>>
     /\ \A i \in 1..Len(converters_) :
          /\ converters_[i].frequency = <<0, 1>> => dispatched[i].n <= 1
          /\ Whole(converters_[i].frequency) => PerSecond(i)]_vars

\* C7, amended: the task of 0 Hz is dispatched once, at the fire time of its
\* registration and before any fire time later than that one (no task
\* registered with it is dispatched twice before it), and every task of a whole
\* number f of Hz has f fire times in each second.
C7_OneShotInFirstRound ==
  \A i \in 1..Len(converters_) :
    /\ converters_[i].frequency = <<0, 1>> =>
         /\ dispatched[i].n <= 1
         /\ dispatched[i].n = 0 =>
              /\ TimeLeq(lastFire, dispatched[i].seed)
              /\ \A j \in 1..Len(converters_) :
                   dispatched[j].seed = dispatched[i].seed => dispatched[j].n <= 1
    /\ Whole(converters_[i].frequency) => PerSecond(i)

\* C7, its case: the scenario has run for a second: the task of 10 Hz has been
\* dispatched 10 times, the tasks of 0 Hz and 1 Hz once.
C7_Witness ==
  /\ ScenarioRegistered
  /\ dispatched[1].n = 10
  /\ dispatched[2].n = 1
  /\ dispatched[3].n = 1

(***************************************************************************)
(* The dumps.                                                              *)
(***************************************************************************)
\* A step in which caller c calls minidump or minidumpConverters.
DumpCall(c) ==
  /\ call[c].pc = "idle"
  /\ call'[c] # call[c]
  /\ call'[c].pc = "stopRecording" \/ call'[c].ret \in {BufferingDisabled, StorageExhausted}

\* A step in which a dump of caller c that has stopped bufferizing exits.
DumpExit(c) ==
  /\ call[c].op \in DumpOps
  /\ call[c].pc \in {"lock", "write", "restore", "close"}
  /\ call'[c].pc = "idle"

\* C8: a dump called while log_enabled_ is false returns the BufferingDisabled
\* error, a dump called with logging on and the folder above its maximum size
\* returns StorageExhausted, and a dump that returns either error changes
\* nothing: the flags, the isDumping flags, the registries, the recording
\* session, the locks and the container are as before the call.
C8_RejectedDump ==
  [][\A c \in Callers :
       DumpCall(c) =>
         /\ ~log_enabled_ => call'[c].ret = BufferingDisabled
         /\ (log_enabled_ /\ call'[c].tooBig) => call'[c].ret = StorageExhausted
         /\ call'[c].ret \in {BufferingDisabled, StorageExhausted} =>
              /\ call'[c].pc = "idle"
              /\ UNCHANGED <<now, registries, flags, mutex_conv_queue_, mutex_record_,
                             recorder_, tick, lastFire>>]_vars

\* C8, its cases: a dump was rejected for the storage while a recording
\* session had its container open, and one for the logging that is off.
C8_Witness ==
  \E c \in Callers :
    /\ call[c].ret = StorageExhausted
    /\ record_enabled_
    /\ recorder_.isStarted
    /\ DOMAIN event_map_ # {}

C8_WitnessDisabled ==
  \E c \in Callers :
    /\ call[c].ret = BufferingDisabled
    /\ call[c].tooBig
    /\ record_enabled_

\* C9: when a dump that has stopped bufferizing exits, by its return or by an
\* exception of startRecord or writeDump, log_enabled_ is true and no event
\* is marked as dumping.
C9_DumpRestores ==
  [][\A c \in Callers :
       DumpExit(c) =>
         /\ log_enabled_'
         /\ \A key \in DOMAIN event_map_' : ~event_map_'[key].isDumping]_vars

\* C9, its case: a dump has ended with an exception, some of its sinks written.
C9_Witness ==
  \E c \in Callers :
    /\ call[c].ret = Exception
    /\ recorder_.dumped # {}
    /\ ~log_enabled_
    /\ \E key \in DOMAIN event_map_ : event_map_[key].isDumping

\* C10: while a dump has its container open, the container holds nothing that
\* a tick wrote: only what the dump wrote.
C10_NoTickWriteInDump == recorder_.by = "dump" => recorder_.written = {}

\* C10, its case: the tick has selected RECORD and released the lock, and a
\* dump has opened its container before the tick hands the sample over.
C10_Witness ==
  /\ tick.pc = "callAll"
  /\ Selected(tick.todo, RECORD)
  /\ recorder_.by = "dump"
  /\ \E c \in Callers : call[c].pc = "write"

(***************************************************************************)
(* Dumps and recording sessions.                                           *)
(***************************************************************************)
\* The step in which the dump of caller c opens its container: line 354
\* for minidump, lines 422 and 434 for minidumpConverters.
DumpOpens(c) ==
  \/ /\ call[c].op = "minidump"
     /\ call[c].pc = "lock"
     /\ call'[c].pc = "write"
  \/ /\ call[c].op = "minidumpConverters"
     /\ call[c].pc = "write"
     /\ call'[c].pc = "restore"
     /\ call'[c].is_started

\* C11: a dump that finds a recording session stops it first (the container
\* is closed and record_enabled_ is false after that step), and whenever a
\* dump opens its container, no recording session is active and no
\* container is open already.
C11_DumpOpensAlone ==
  [][\A c \in Callers :
       /\ (call[c].pc = "stopRecording" /\ call'[c].pc = "return")
            => ~record_enabled_' /\ ~recorder_'.isStarted
       /\ DumpOpens(c) => ~record_enabled_ /\ ~recorder_.isStarted]_vars

\* A dump of one caller is about to open its container while the session
\* that another caller started is active.
C11_Witness ==
  \E c \in Callers :
    /\ call[c].op \in DumpOps
    /\ call[c].pc = "lock"
    /\ mutex_record_ = NoOne
    /\ record_enabled_
    /\ recorder_.isStarted
    /\ recorder_.by = "recording"

\* Lines 372 and 447-457: the dump of caller c returns past its preconditions.
DumpReturns(c) ==
  /\ call[c].op \in DumpOps
  /\ call[c].pc = "close"
  /\ call'[c].pc = "idle"

\* C12: a dump that passed its preconditions returns the name of the
\* container if and only if the buffer of at least one sink was flushed;
\* otherwise it returns NoMatchingSinks, and then it closed no container and
\* leaves none open.
C12_ContainerIffFlushed ==
  [][\A c \in Callers :
       DumpReturns(c) =>
         /\ call'[c].ret \in {ContainerId, NoMatchingSinks}
         /\ call'[c].ret = ContainerId <=> recorder_.dumped # {}
         /\ call'[c].ret = NoMatchingSinks => ~recorder_.isStarted /\ ~recorder_'.isStarted]_vars

\* minidump is about to return with a container open and no buffer in it,
\* the registries holding no sink.
C12_Witness ==
  \E c \in Callers :
    /\ call[c].op = "minidump"
    /\ call[c].pc = "close"
    /\ recorder_.isStarted
    /\ recorder_.dumped = {}
    /\ DOMAIN rec_map_ \cup DOMAIN event_map_ = {}

(***************************************************************************)
(* The tick and the record lock.                                           *)
(***************************************************************************)
\* C13: the tick never waits for mutex_record_: whoever holds it, the step
\* that decides RECORD and the steps after it can be taken; decided while the
\* lock is held, the tick does not select RECORD, keeps PUBLISH as decided
\* and goes on to decide LOG, and it ends with the pop and the reschedule.
C13_TickNeverWaits ==
  /\ [](tick.pc = "record" => ENABLED TickRecord)
  /\ [](tick.pc \in {"log", "callAll"} => ENABLED RosIteration)
  /\ [][
       /\ (RecordStep /\ mutex_record_ # NoOne) =>
            /\ ~Selected(tick'.actions, RECORD)
            /\ (Selected(tick'.actions, PUBLISH) <=> Selected(tick.actions, PUBLISH))
            /\ UNCHANGED mutex_record_
       /\ (LogStep /\ mutex_record_ # NoOne) =>
            (Selected(tick'.actions, LOG) <=> LogSelected(TickConv))
       /\ (FinishStep /\ mutex_record_ # NoOne) =>
            /\ UNCHANGED mutex_record_
            /\ (TickConv.frequency[1] # 0 => Len(conv_queue_') = Len(conv_queue_))]_vars

\* C13, its case: a caller holds the lock with recording on for the task's
\* recorder, and the tick is about to reschedule having selected LOG and
\* not RECORD.
C13_Witness ==
  /\ tick.pc = "callAll"
  /\ tick.todo = <<>>
  /\ Selected(tick.actions, LOG)
  /\ ~Selected(tick.actions, RECORD)
  /\ mutex_record_ # NoOne
  /\ record_enabled_
  /\ TickConv.rec # 0
  /\ recorders[TickConv.rec].isSubscribed

\* Line 285: the tick hands a sample to the recorder in this step.
TickWrites == tick'.writes > tick.writes

\* A stopRecording() that has not returned yet, called by a caller or by a dump.
Stopping ==
  \E c \in Callers :
    /\ call[c].pc = "return"
    /\ call[c].op \in {"stopRecording"} \cup DumpOps

\* C15: no write of a tick reaches the recorder once stopRecording() has
\* returned and recording has not been started again: a tick hands a sample
\* over only while record_enabled_ is true or a stopRecording() has yet to
\* return.
C15_NoWriteAfterStop == [][TickWrites => record_enabled_ \/ Stopping]_vars

\* C15, its case: stopRecording() has returned, recording is off, and the
\* tick that selected RECORD before still has the write to do.
C15_Witness ==
  /\ tick.pc = "callAll"
  /\ Selected(tick.todo, RECORD)
  /\ ~record_enabled_
  /\ ~recorder_.isStarted
  /\ \A c \in Callers : Idle(c)

(***************************************************************************)
(* stopRecording and stop.                                                 *)
(***************************************************************************)
\* Line 1159: stopRecording() of caller c returns.
StopRecordingReturns(c) ==
  /\ call[c].op = "stopRecording"
  /\ call[c].pc = "return"
  /\ call'[c].pc = "idle"

\* The names of rec_map_ whose recorder is subscribed.
SubscribedNames ==
  {name \in DOMAIN rec_map_ : recorders[rec_map_[name]].isSubscribed}

\* C14: when stopRecording() returns, record_enabled_ is false, no recorder
\* of rec_map_ is subscribed and no event of event_map_ is recording,
\* whatever the registries hold.
C14_StoppedForAll ==
  [][\A c \in Callers :
       StopRecordingReturns(c) =>
         /\ ~record_enabled_'
         /\ SubscribedNames' = {}
         /\ \A key \in DOMAIN event_map_' : ~event_map_'[key].isRecording]_vars

\* C14, its case: stopRecording() is about to return while rec_map_ holds a
\* subscribed recorder under a name that no task of converters_ has.
C14_Witness ==
  \E c \in Callers :
    /\ call[c].op = "stopRecording"
    /\ call[c].pc = "return"
    /\ \E name \in SubscribedNames :
         \A i \in 1..Len(converters_) : converters_[i].name # name

\* Line 1183: stop() of caller c returns.
StopReturns(c) ==
  /\ call[c].op = "stop"
  /\ call[c].pc = "event_map_.clear"
  /\ call'[c].pc = "idle"

\* C16: when stop() returns, pub_map_, rec_map_, event_map_ and converters_
\* are empty.
C16_StopClearsAll ==
  [][\A c \in Callers :
       StopReturns(c) =>
         /\ DOMAIN pub_map_' = {}
         /\ DOMAIN rec_map_' = {}
         /\ DOMAIN event_map_' = {}
         /\ converters_' = <<>>]_vars

\* C16, its case: stop() has cleared converters_ and is about to clear
\* event_map_ and return, and pub_map_ and rec_map_ hold a sink each.
C16_Witness ==
  \E c \in Callers :
    /\ call[c].op = "stop"
    /\ call[c].pc = "event_map_.clear"
    /\ converters_ = <<>>
    /\ DOMAIN pub_map_ # {}
    /\ DOMAIN rec_map_ # {}
    /\ \A d \in Callers \ {c} : Idle(d)

\* The events whose background processing runs.
Processing == {key \in DOMAIN event_map_ : event_map_[key].started}

\* C17: stop() has asked every event of event_map_ to stop processing
\* before it clears event_map_ and returns: the step that clears the
\* registry removes no event whose processing still runs.
C17_StoppedBeforeRemoved ==
  [][\A c \in Callers : StopReturns(c) => Processing = {}]_vars

\* C17, its case: stop() has run its stopProcess loop and is about to clear
\* event_map_, which holds an event whose processing another caller
\* started after the loop.
C17_Witness ==
  \E c \in Callers :
    /\ call[c].op = "stop"
    /\ call[c].pc = "event_map_.clear"
    /\ Processing # {}

\* Lines 1330-1333 run for caller c: the registration passes the if that
\* starts the event.
StartProcessStep(c) ==
  /\ call[c].op = "registerEventConverter"
  /\ call[c].pc = "startProcess"
  /\ call'[c].pc = "isPublishing"

\* C18: stop() is terminal: once keep_looping is false it is false in every
\* later state, whatever is called, and a registerEventConverter called
\* after that reads the flag false and does not start its event.
C18_StopIsTerminal ==
  /\ [][~keep_looping => ~keep_looping']_vars
  /\ [](\A c \in Callers :
          (call[c].afterStop /\ call[c].pc \in {"startProcess", "isPublishing"})
            => ~keep_looping /\ ~call[c].looping)
  /\ [][\A c \in Callers :
         (StartProcessStep(c) /\ call[c].afterStop) =>
           event_map_'[call[c].key].started = event_map_[call[c].key].started]_vars

\* C18, its case: stop() has returned and left the registries empty, and
\* the event registered after it is past the if of line 1330 and not
\* started.
C18_Witness ==
  \E c \in Callers :
    /\ ~keep_looping
    /\ call[c].afterStop
    /\ call[c].pc = "isPublishing"
    /\ Has(event_map_, call[c].key)
    /\ ~event_map_[call[c].key].started
    /\ \A d \in Callers \ {c} : Idle(d)

(***************************************************************************)
(* Names in the registries.                                                *)
(***************************************************************************)
\* Lines 487-495 and 497-503 run for caller c.
RegisterPublisherStep(c) == call[c].pc = "registerPublisher" /\ call'[c].pc # "registerPublisher"
RegisterRecorderStep(c) == call[c].pc = "registerRecorder" /\ call'[c].pc # "registerRecorder"

\* The call of caller c ends in this step with an error handed to the caller.
SurfacesError(c) == call'[c].ret # "none"

\* C19: registerPublisher and registerRecorder insert or fail: under a name
\* that the registry holds already, the entry is left as it is and the
\* caller gets an error.
C19_InsertOrFail ==
  [][\A c \in Callers :
       /\ (RegisterPublisherStep(c) /\ Has(pub_map_, call[c].conv.name)) =>
            pub_map_' = pub_map_ /\ SurfacesError(c)
       /\ (RegisterRecorderStep(c) /\ Has(rec_map_, call[c].conv.name)) =>
            rec_map_' = rec_map_ /\ SurfacesError(c)]_vars

\* C19, its case: registerPublisher is about to run for a name under which
\* pub_map_ holds the publisher of another task.
C19_Witness ==
  \E c \in Callers :
    /\ call[c].pc = "registerPublisher"
    /\ Has(pub_map_, call[c].conv.name)
    /\ pub_map_[call[c].conv.name] # call[c].conv.pub

\* C20: the names of the tasks are unique: no two tasks of converters_ have
\* the same name and no name is in conv_queue_ twice (a second registration
\* under a name fails).
C20_UniqueNames ==
  /\ \A i, j \in 1..Len(converters_) :
       converters_[i].name = converters_[j].name => i = j
  /\ \A i, j \in 1..Len(conv_queue_) :
       (/\ conv_queue_[i].conv_index_ < Len(converters_)
        /\ conv_queue_[j].conv_index_ < Len(converters_)
        /\ Conv(conv_queue_[i].conv_index_).name = Conv(conv_queue_[j].conv_index_).name)
         => i = j

\* C20, its case: converters_ holds two tasks of one name, both in the queue.
C20_Witness ==
  /\ Len(converters_) = 2
  /\ converters_[1].name = converters_[2].name
  /\ Len(conv_queue_) = 2
  /\ \A c \in Callers : Idle(c)

\* The names of the tasks of converters_.
TaskNames == {converters_[i].name : i \in 1..Len(converters_)}

\* C21: no name is both the name of a task of converters_ and the key of an
\* event of event_map_.
C21_TaskOrEvent == TaskNames \cap DOMAIN event_map_ = {}

\* C21, its case: the registrations have returned, and one name is the name
\* of a task and the key of an event.
C21_Witness ==
  /\ TaskNames \cap DOMAIN event_map_ # {}
  /\ \A c \in Callers : Idle(c)

(***************************************************************************)
(* Registration of a task.                                                 *)
(***************************************************************************)
\* Lines 478-485 run for caller c.
RegisterConverterStep(c) ==
  /\ call[c].pc = "idle"
  /\ call'[c].op = "registerConverter"

\* Lines 481-484: the task is appended, the tasks before it stay where they
\* are, and the queue gains the one entry ScheduledConverter(now, index).
Registered(c, index) ==
  /\ converters_' = Append(converters_, call'[c].conv)
  /\ \E k \in 1..Len(conv_queue_') :
       /\ conv_queue_'[k] = ScheduledConverter(now, index)
       /\ QueuePop(conv_queue_', k) = conv_queue_

\* C22 as stated: registerConverter(conv) runs under the record lock, so
\* that it runs only when no one else holds mutex_record_, and the index of
\* the new task is the number of tasks registered before it.
C22_UnderRecordLock ==
  [][\A c \in Callers :
       RegisterConverterStep(c) =>
         /\ mutex_record_ = NoOne
         /\ tick.pc = "idle"
         /\ Registered(c, Len(dispatched))]_vars

\* C22, amended: registerConverter(conv) runs under the queue lock, which the
\* tick holds from its peek to its reschedule, so that no tick is in
\* progress when it runs; the index of the new task is the number of tasks
\* converters_ holds at the call.
C22_UnderQueueLock ==
  [][\A c \in Callers :
       RegisterConverterStep(c) =>
         /\ mutex_conv_queue_ = NoOne
         /\ tick.pc = "idle"
         /\ Registered(c, Len(converters_))]_vars

\* C22, its case: a second task has been registered while another caller
\* held the record lock, after a tick had dispatched the first.
C22_Witness ==
  \E c \in Callers :
    /\ call[c].op = "registerConverter"
    /\ Len(converters_) = 2
    /\ dispatched[1].n > 0
    /\ mutex_record_ \in Callers \ {c}

(***************************************************************************)
(* Registration of an event.                                               *)
(***************************************************************************)
\* Line 1337: registerEventConverter of caller c returns true.
RegisterEventReturns(c) ==
  /\ call[c].op = "registerEventConverter"
  /\ call[c].pc = "isPublishing"
  /\ call'[c].pc = "idle"

C23_WitnessStopped ==
  \E key \in DOMAIN event_map_ :
    /\ ~keep_looping
    /\ publish_enabled_
    /\ ~event_map_[key].started
    /\ event_map_[key].isPublishing
    /\ \A c \in Callers : Idle(c)

(***************************************************************************)
(* Dumps, the record lock and the buffers.                                 *)
(***************************************************************************)
\* A dump of caller c that found logging enabled returns a string in this
\* step: the storage error, the name of the container, or the error of
\* minidumpConverters that found no name.
DumpReturnsNormally(c) ==
  /\ DumpCall(c) \/ DumpReturns(c)
  /\ call'[c].pc = "idle"
  /\ call'[c].ret \in {StorageExhausted, ContainerId, NoMatchingSinks}

\* C24: every dump that passed the test of log_enabled_ and returns normally
\* returns with log_enabled_ true and no event marked as dumping.
C24_NoPartialState ==
  [][\A c \in Callers :
       DumpReturnsNormally(c) =>
         /\ log_enabled_'
         /\ \A key \in DOMAIN event_map_' : ~event_map_'[key].isDumping]_vars

\* C24, its case: a dump is called with the folder above its maximum size
\* and logging enabled again, the events still marked as dumping by an
\* earlier dump that an exception ended.
C24_Witness ==
  \E c \in Callers :
    /\ call[c].ret = StorageExhausted
    /\ log_enabled_
    /\ \E key \in DOMAIN event_map_ : event_map_[key].isDumping

\* C25: mutex_conv_queue_ guards conv_queue_ and converters_ together: a
\* step of the tick changes them only while the tick holds the lock, a step
\* of a caller (a registration, the clearing of stop()) only when no one
\* else holds it, and the task that a tick in progress refers to is in
\* converters_ until the tick ends.
C25_OneLockForBoth ==
  /\ [][(converters_' # converters_ \/ conv_queue_' # conv_queue_) =>
          IF tick' # tick THEN mutex_conv_queue_ = Scheduler
                          ELSE mutex_conv_queue_ = NoOne]_vars
  /\ [](~Dangling)

\* C25, its case: stop() has cleared converters_ while the tick, holding the
\* queue lock, has decided its actions and has yet to call the task.
C25_Witness ==
  /\ Dangling
  /\ tick.pc = "callAll"
  /\ tick.todo # <<>>
  /\ mutex_conv_queue_ = Scheduler
  /\ \E c \in Callers : call[c].op = "stop"

\* The dump of caller c has stopped bufferizing (lines 345-349 / 404-408)
\* and has not restarted it (lines 367-371 / 442-446).
Disabled(c) ==
  /\ call[c].op \in DumpOps
  /\ call[c].pc \in {"lock", "write", "restore"}

\* C26: a dump that has stopped bufferizing and not yet restarted it holds
\* mutex_record_.
C26_DisabledUnderLock == \A c \in Callers : Disabled(c) => mutex_record_ = c

\* C26, its case: the dump has set log_enabled_ false and marked the events
\* as dumping, and the record lock is free.
C26_Witness ==
  \E c \in Callers :
    /\ Disabled(c)
    /\ ~log_enabled_
    /\ \E key \in DOMAIN event_map_ : event_map_[key].isDumping
    /\ mutex_record_ = NoOne

\* Line 285: the tick hands a sample to the recorder's bufferize in this step.
TickBuffers ==
  /\ tick.pc = "callAll"
  /\ tick.todo # <<>>
  /\ Head(tick.todo) = LOG
  /\ tick'.todo = Tail(tick.todo)

\* C27: between the step in which a dump stops bufferizing and the step in
\* which it restarts it, no tick hands a sample to a recorder's buffer.
C27_NoBufferingInDump == [][TickBuffers => \A c \in Callers : ~Disabled(c)]_vars

\* C27, its case: the tick selected LOG for a task with a recorder before
\* the dump stopped bufferizing, and has the sample still to hand over
\* while the dump, under the record lock, writes the buffers.
C27_Witness ==
  /\ tick.pc = "callAll"
  /\ tick.todo # <<>>
  /\ Head(tick.todo) = LOG
  /\ TickConv.rec # 0
  /\ ~log_enabled_
  /\ \E c \in Callers : call[c].pc = "write" /\ mutex_record_ = c

\* Lines 261, 273, 280: the place of an action in the order the tick pushes them.
Rank(action) == CASE action = PUBLISH -> 1 [] action = RECORD -> 2 [] action = LOG -> 3

\* Line 285: the task is invoked in this step.
CallAllStep == tick.pc = "callAll" /\ tick'.todo # tick.todo

\* C28: the tick invokes the task only with a non-empty action list; the list
\* holds each selected action at most once, in the order PUBLISH, RECORD,
\* LOG, and the task serves the actions in the order of the list.
C28_OrderedActions ==
  /\ [](tick.pc = "callAll" =>
        /\ \A j, k \in 1..Len(tick.actions) :
             j < k => Rank(tick.actions[j]) < Rank(tick.actions[k])
        /\ \E n \in 0..Len(tick.actions) :
             tick.todo = SubSeq(tick.actions, n + 1, Len(tick.actions)))
  /\ [][CallAllStep => tick.actions # <<>> /\ tick'.actions = tick.actions]_vars

\* C28, its case: all three actions were selected and the task is about to
\* be invoked with them.
C28_Witness ==
  /\ tick.pc = "callAll"
  /\ Len(tick.actions) = 3
  /\ tick.todo = tick.actions

\* Lines 242-314: a step of the tick, not of a caller and not of the clock alone.
TickStep == tick' # tick

\* Lines 303-307: the tick finds the queue empty and sleeps.
IdleStep == tick.pc = "idle" /\ conv_queue_ = <<>> /\ now' = TimeAdd(now, Seconds(1))

\* C29: a tick pops at most one entry and dispatches one task, once: queue
\* and dispatch counts change only in the step that ends the tick, which
\* takes the dispatched entry away, pushes at most one entry, of the same
\* task, and counts one dispatch of that task.  With the queue empty the
\* tick changes no queue, registry or flag.  So every registered task of
\* frequency other than 0 has exactly one entry in the queue, and every task
\* of frequency 0 at most one.
C29_OneUnitOfWork ==
  /\ [](\A i \in 1..Len(converters_) :
          IF converters_[i].frequency[1] # 0
          THEN Cardinality(EntriesOf(conv_queue_, i - 1)) = 1
          ELSE Cardinality(EntriesOf(conv_queue_, i - 1)) <= 1)
  /\ [][/\ (TickStep /\ ~FinishStep) =>
            UNCHANGED <<conv_queue_, converters_, dispatched,
                 buffer_duration_>>
        /\ FinishStep =>
            /\ Len(conv_queue_') \in {Len(conv_queue_) - 1, Len(conv_queue_)}
            /\ \A i \in 1..Len(converters_) :
                 i - 1 # TopEntry.conv_index_ =>
                   /\ Cardinality(EntriesOf(conv_queue_', i - 1))
                        = Cardinality(EntriesOf(conv_queue_, i - 1))
                   /\ dispatched'[i] = dispatched[i]
            /\ dispatched'[TopEntry.conv_index_ + 1].n
                 = dispatched[TopEntry.conv_index_ + 1].n + 1
            /\ UNCHANGED <<converters_, pub_map_, rec_map_, event_map_, flags>>
        /\ IdleStep =>
            UNCHANGED <<conv_queue_, converters_, pub_map_, rec_map_, event_map_,
                        dispatched, flags>>]_vars

\* C29, its case: of three registered tasks one of frequency 0 has been
\* dispatched and has left the queue, one of frequency 0 still waits, and
\* one of another frequency has been dispatched twice and waits again.
C29_Witness ==
  \E i, j, k \in 1..Len(converters_) :
    /\ converters_[i].frequency[1] = 0 /\ dispatched[i].n = 1
    /\ converters_[j].frequency[1] = 0 /\ dispatched[j].n = 0
    /\ converters_[k].frequency[1] # 0 /\ dispatched[k].n >= 2
    /\ tick.pc = "idle"

\* C29, the empty queue: the only task, of frequency 0, has been dispatched
\* and the tick has slept on the empty queue since.
C29_WitnessIdle ==
  /\ Len(converters_) = 1
  /\ dispatched[1].n = 1
  /\ conv_queue_ = <<>>
  /\ tick.pc = "idle"
  /\ TimeLess(lastFire, now)

\* Lines 258, 267: the name of the task of the tick is found in neither map,
\* or in one only.
SinkMissing(name) == ~Has(pub_map_, name) \/ ~Has(rec_map_, name)

\* C30: the tick of a task whose name is missing from pub_map_ or from
\* rec_map_ goes on to its end: the actions of the missing sink are not
\* selected, the task is not invoked when no action is left, the entry is
\* popped and, for a frequency other than 0, one entry is pushed for the
\* fire time plus 1/frequency.
C30_MissingSink ==
  [][
    /\ (BeginStep /\ ~Has(pub_map_, BegunName)) => ~Selected(tick'.actions, PUBLISH)
    /\ (RecordStep /\ ~Has(rec_map_, TickConv.name)) => ~Selected(tick'.actions, RECORD)
    /\ (LogStep /\ ~Has(rec_map_, TickConv.name)) => ~Selected(tick'.actions, LOG)
    /\ (LogStep /\ SinkMissing(TickConv.name)) => tick'.pc # "crashed"
    /\ (CallAllStep /\ SinkMissing(TickConv.name)) => tick.actions # <<>>
    /\ (FinishStep /\ SinkMissing(TickConv.name)) =>
         /\ Len(conv_queue_') = IF TickConv.frequency[1] # 0
                                THEN Len(conv_queue_) ELSE Len(conv_queue_) - 1
         /\ TickConv.frequency[1] # 0 =>
              /\ Cardinality(EntriesOf(conv_queue_', TopEntry.conv_index_)) = 1
              /\ \A k \in EntriesOf(conv_queue_', TopEntry.conv_index_) :
                   Near(TimeSub(conv_queue_'[k].schedule_, TopEntry.schedule_),
                        ExactPeriod(TickConv.frequency))
         /\ TickConv.frequency[1] = 0 =>
              EntriesOf(conv_queue_', TopEntry.conv_index_) = {}
  ]_vars

\* C30, its case: publishing is on and the tick of a task of 1/8 Hz whose
\* publisher is not registered yet has selected no action and is about to
\* pop and reschedule the entry.
C30_Witness ==
  /\ tick.pc = "callAll"
  /\ tick.actions = <<>>
  /\ publish_enabled_
  /\ ~Has(pub_map_, TickConv.name)
  /\ TickConv.frequency = <<1, 8>>

\* A registration of events ends in this step: registerDefaultConverter
\* or registerEventConverter returns, or an exception leaves it.
EventRegistrationEnds(c) ==
  /\ call[c].op \in {"registerDefaultConverter", "registerEventConverter"}
  /\ call'[c].pc = "idle"

\* C31: a start of background processing that fails during a registration
\* of events does not leave the registration as an exception: the event
\* stays in event_map_, not started, and a registration of the default
\* events ends with every default event in event_map_.
C31_StartFailureContained ==
  [][\A c \in Callers :
       EventRegistrationEnds(c) =>
         /\ call'[c].ret # "exception"
         /\ Has(event_map_', call[c].key)
         /\ call[c].op = "registerDefaultConverter" =>
              \A i \in 1..Len(DefaultEvents) : Has(event_map_', DefaultEvents[i])]_vars

\* C31, its case: the start of bumper has failed during the registration of
\* the default events; bumper is registered and not started, and the events
\* after it are not registered.
C31_Witness ==
  \E c \in Callers :
    /\ call[c].ret = "exception"
    /\ Has(event_map_, "bumper")
    /\ ~event_map_["bumper"].started
    /\ ~Has(event_map_, "hand_touch")
    /\ keep_looping

\* Line 299: the value (1.0f / conv.frequency()) * 1e9 before its conversion
\* to the uint32_t parameter.
PeriodNanos(f) == TimesNanos(FloatReciprocal(f))

\* C32: for every frequency f > 0 of a dispatched task, fractional ones
\* included, the nanoseconds of the period are below 2^32, and the fire time
\* pushed is later than the one dispatched by 1/f (up to the rounding of 1/f
\* to single precision).
C32_PeriodFits ==
  [][(FinishStep /\ TickConv.frequency[1] # 0) =>
       /\ TimeLess(PeriodNanos(TickConv.frequency), Uint32Range)
       /\ \A k \in EntriesOf(conv_queue_', TopEntry.conv_index_) :
            /\ TimeLess(TopEntry.schedule_, conv_queue_'[k].schedule_)
            /\ Near(TimeSub(conv_queue_'[k].schedule_, TopEntry.schedule_),
                    ExactPeriod(TickConv.frequency))]_vars

\* C32, its case: the tick of a task of 1/8 Hz is about to compute the
\* period, 8e9 nanoseconds, which 32 bits cannot hold.
C32_Witness ==
  /\ tick.pc = "callAll"
  /\ tick.todo = <<>>
  /\ TickConv.frequency = <<1, 8>>
  /\ ~TimeLess(PeriodNanos(TickConv.frequency), Uint32Range)

\* C33: every recorder of rec_map_ and every event of event_map_ has the
\* horizon getBufferDuration() returns, those registered after the last
\* setBufferDuration included.
C33_GlobalHorizon ==
  /\ \A r \in MappedRecorders : recorders[r].buffer_duration = GetBufferDuration
  /\ \A key \in DOMAIN event_map_ : event_map_[key].buffer_duration = GetBufferDuration

\* C33, its case: the horizon has been changed, and a recorder and an event
\* have been registered since: they have the default horizon.
C33_Witness ==
  /\ GetBufferDuration # BufferDefaultDuration
  /\ \E r \in MappedRecorders : recorders[r].buffer_duration = BufferDefaultDuration
  /\ \E key \in DOMAIN event_map_ : event_map_[key].buffer_duration = BufferDefaultDuration
  /\ \A c \in Callers : Idle(c)

\* C34: every conv_index_ in conv_queue_ is an index of converters_, while
\* stop() runs and after it has returned too.
C34_QueueIndicesValid ==
  \A k \in 1..Len(conv_queue_) : conv_queue_[k].conv_index_ < Len(converters_)

\* C34, its case: stop() has returned with a task registered and waiting in
\* the queue; converters_ is empty and the queue still names index 0.
C34_Witness ==
  /\ ~keep_looping
  /\ \A c \in Callers : Idle(c)
  /\ tick.pc = "idle"
  /\ converters_ = <<>>
  /\ \E k \in 1..Len(conv_queue_) : conv_queue_[k].conv_index_ = 0

\* Lines 514-516, 521-522, 527-528: caller c has queued the task and has
\* not yet inserted all its sinks.
SinksPending(c) == call[c].pc \in {"registerPublisher", "registerRecorder"}

\* C35: no tick begins the dispatch of a task whose registration has queued
\* it and has not yet inserted its publisher and recorder.
C35_AtomicRegistration ==
  [][BeginStep =>
       \A c \in Callers :
         SinksPending(c) => call[c].conv.id # tick'.conv.id]_vars

\* C35, its case: publishing is on and the tick has dispatched a task of
\* frequency 0 with an empty action list; it is about to pop its entry
\* while the caller that queued it has still to insert its publisher and
\* its recorder.
C35_Witness ==
  \E c \in Callers :
    /\ call[c].pc = "registerPublisher"
    /\ tick.pc = "callAll"
    /\ tick.actions = <<>>
    /\ tick.conv.id = call[c].conv.id
    /\ tick.conv.frequency[1] = 0
    /\ publish_enabled_
    /\ ~Has(pub_map_, tick.conv.name)

ContainerOpen(c) ==
  /\ call[c].op \in DumpOps
  /\ call[c].pc \in {"write", "restore", "close"}
  /\ call[c].is_started

\* C37: while a dump has its container open, log_enabled_ is false and every
\* event is marked as dumping.
C37_DisabledWhileOpen ==
  \A c \in Callers :
    ContainerOpen(c) =>
      /\ ~log_enabled_
      /\ \A key \in DOMAIN event_map_ : event_map_[key].isDumping

\* C37, its case: two dumps overlap; the one that took the record lock first
\* has restarted bufferizing and returned its container, and the other writes
\* the buffers into its own container with log_enabled_ true.
C37_Witness ==
  \E c, d \in Callers :
    /\ ContainerOpen(c)
    /\ call[c].pc = "write"
    /\ mutex_record_ = c
    /\ log_enabled_
    /\ call[d].pc = "idle"
    /\ call[d].ret = ContainerId

\* Line 480 reached from line 169: the thread asks for the queue lock.
WaitsForQueueLock(c) == call[c].pc = "run.registerConverter"

\* C38: no thread asks for the queue lock while it holds it: run(), which
\* holds the lock from line 161, can register the default tasks when it
\* finds converters_ empty.
C38_NoSelfDeadlock ==
  \A c \in Callers : WaitsForQueueLock(c) => mutex_conv_queue_ # c

\* C38, its case: stop() has cleared converters_ after run() registered the
\* default task; run() holds the queue lock, has found converters_ empty and
\* is inside registerConverter(conv) at the lock of line 480.
C38_Witness ==
  \E c \in Callers :
    /\ WaitsForQueueLock(c)
    /\ mutex_conv_queue_ = c
    /\ converters_ = <<>>
    /\ ~keep_looping
    /\ Len(dispatched) = 1

\* C39: between the calls of a sequence of startPublishing, stopPublishing
\* and registrations of events, every event of event_map_ is publishing
\* exactly when publish_enabled_ is true.
C39_EventsFollowFlag ==
  (\A c \in Callers : Idle(c)) =>
    \A key \in DOMAIN event_map_ : event_map_[key].isPublishing = publish_enabled_

\* C39, its case: publishing was switched on, then the registration of the
\* default events ended at the start of bumper: bumper is registered and
\* not publishing while publish_enabled_ is true.
C39_Witness ==
  /\ \A c \in Callers : Idle(c)
  /\ publish_enabled_
  /\ Has(event_map_, "audio")
  /\ event_map_["audio"].isPublishing
  /\ Has(event_map_, "bumper")
  /\ ~event_map_["bumper"].isPublishing

\* Lines 339-342: the dump of caller c calls stopRecording() in this step.
DumpStopsRecording(c) ==
  /\ call[c].op \in DumpOps
  /\ call[c].pc = "stopRecording"
  /\ call'[c].pc = "return"

\* Any other step of a dump of caller c, from its call to its return.
DumpOtherStep(c) ==
  /\ DumpCall(c) \/ call[c].op \in DumpOps
  /\ call'[c] # call[c]
  /\ ~DumpStopsRecording(c)

\* C40: a dump called while record_enabled_ is true stops the session: after
\* its stopRecording record_enabled_ is false, the recorder of every task of
\* converters_ is unsubscribed and no event is recording; and no other step
\* of the dump, to its return, sets any of them again.
C40_DumpKeepsRecordingOff ==
  [][\A c \in Callers :
       /\ (DumpCall(c) /\ record_enabled_ /\ call'[c].pc # "idle") =>
            call'[c].wasRecording
       /\ DumpStopsRecording(c) =>
            /\ ~record_enabled_'
            /\ \A r \in ReachedRecorders : ~recorders'[r].isSubscribed
            /\ \A key \in DOMAIN event_map_' : ~event_map_'[key].isRecording
       /\ DumpOtherStep(c) =>
            /\ record_enabled_' = record_enabled_
            /\ \A r \in 1..Len(recorders) :
                 recorders'[r].isSubscribed = recorders[r].isSubscribed
            /\ \A key \in DOMAIN event_map_ :
                 event_map_'[key].isRecording = event_map_[key].isRecording]_vars

\* C40, its case: a dump called during a recording session has stopped the
\* session, written the buffers and restarted bufferizing; it is about to
\* return, with record_enabled_ false, the recorder of the task
\* unsubscribed and the event not recording.
C40_Witness ==
  \E c \in Callers :
    /\ call[c].op \in DumpOps
    /\ call[c].pc = "close"
    /\ call[c].wasRecording
    /\ call[c].is_started
    /\ ~record_enabled_
    /\ ReachedRecorders # {}
    /\ \A r \in ReachedRecorders : ~recorders[r].isSubscribed
    /\ event_map_ # <<>>
    /\ \A key \in DOMAIN event_map_ : ~event_map_[key].isRecording

====
